---------------------------- MODULE Spec2Model ----------------------------
(***************************************************************************)
(* A model of the playback engine of konik: the engine thread              *)
(* (player.rs, PlayerThread), the decoder it owns (decoder.rs), the stream *)
(* the decoder reads (symphonia_stream.rs), the CUE sheets (cue.rs), the   *)
(* command channel, the response channel and the audio output callback.    *)
(*                                                                         *)
(* Durations are natural numbers of ticks.  Option<T> is a sequence of     *)
(* length at most one: None is << >>, Some(x) is <<x>>.                    *)
(***************************************************************************)
EXTENDS Integers, Sequences, FiniteSets, TLC

VARIABLES
    env,        \* what the engine is given: callbacks, start-up commands, clients, device
    player,     \* PlayerThread's fields (player.rs:126-139)
    decoder,    \* Decoder's fields (decoder.rs:37-52)
    rx,         \* the command channel: commands sent and not yet received
    tx,         \* the response channel: every response sent, in order
    pc,         \* where the engine thread is: "cmd", "read" or "exited"
    packets_left, \* read_stream_packets_batch's counter
    received,   \* the response thread: how many responses it has taken from tx
    consumer,   \* the response thread: "running" or "exited"
    sent,       \* ghost: per response, what the engine was doing when it sent it
    changed,    \* ghost: playlist_index changed since the last NewPlaylistIndex
    nsent,      \* ghost: number of commands sent
    cmds,       \* ghost: the commands the engine has received, in order
    scrobbler,  \* a scrobbling service: its queue, its file and its API thread
    singleton,  \* the processes of the program, their socket and their lock file
    app_state,  \* the App: AppState and the file state.json
    cues,       \* CUE code on its own: a CueFactory, a lookup, a list of paths
    threads     \* the App mutex and the threads that take part in the shutdown

\* the engine with its channels and the response thread
engine == <<env, player, decoder, rx, tx, pc, packets_left, received, consumer,
            sent, changed, nsent, cmds>>

\* what lives outside the engine
outside == <<scrobbler, singleton, app_state, cues, threads>>

vars == <<engine, outside>>

(***************************************************************************)
(* Bounds of the model and constants of the program.                       *)
(***************************************************************************)
MaxCmds == 2

BUFFER_CAPACITY == 65535
BUFFER_SOFT_STOP == 60000
READ_PACKETS_PER_CYCLE == 5

None == << >>
Some(x) == <<x>>
Min(a, b) == IF a < b THEN a ELSE b
Max(a, b) == IF a > b THEN a ELSE b
SatSub(a, b) == IF a > b THEN a - b ELSE 0

(***************************************************************************)
(* The files of the music library.  A stream is a sequence of packets;     *)
(* packet k of a file carries frames*channels samples and the timestamp    *)
(* k*frames/rate.  A file that cannot be opened has opens = FALSE.         *)
(***************************************************************************)
Audio(dir, opens, ch, rate, frames, packets) ==
    [dir |-> dir, opens |-> opens, channels_count |-> ch, sample_rate |-> rate,
     frames |-> frames, packets |-> packets]

FileInfo(path) ==
    CASE path = "/a/1.flac" -> Audio("/a", TRUE, 2, 1, 16384, 1)
      [] path = "/a/2.flac" -> Audio("/a", TRUE, 2, 1, 16384, 1)
      [] path = "/b/1.flac" -> Audio("/b", TRUE, 2, 1, 16384, 1)
      [] path = "/b/2.flac" -> Audio("/b", TRUE, 2, 1, 16384, 1)
      [] path = "/c/1.flac" -> Audio("/c", TRUE, 2, 1, 16384, 1)
      [] path = "/b/long.flac" -> Audio("/b", TRUE, 2, 1, 16384, 4)
      [] path = "/b/bad.flac" -> Audio("/b", FALSE, 2, 1, 16384, 0)
      [] path = "/c/bad.flac" -> Audio("/c", FALSE, 2, 1, 16384, 0)
      [] path = "/c/x.flac" -> Audio("/c", TRUE, 2, 1, 16384, 4)
      [] path = "/c/z.flac" -> Audio("/c", TRUE, 2, 1, 16384, 4)
      [] path = "/d/48k.flac" -> Audio("/d", TRUE, 2, 2, 16384, 3)
      [] path = "/d/raw.flac" -> Audio("/d", TRUE, 2, 1, 16384, 4)
      [] path = "/e/w.flac" -> Audio("/e", TRUE, 2, 1, 16384, 4)
      [] OTHER -> Audio("", FALSE, 0, 0, 0, 0)

PacketSamples(path) == FileInfo(path).frames * FileInfo(path).channels_count
PacketTicks(path) == FileInfo(path).frames \div FileInfo(path).sample_rate
FileDuration(path) == FileInfo(path).packets * PacketTicks(path)

\* playlist_index_dir: the parent path of the track's file
playlist_index_dir(pl, index) == FileInfo(pl[index + 1].filename).dir

\* TrackMeta (stream_base.rs:16-26), cut to what the engine reads
FileMeta(path) == [title |-> path, track |-> None, duration |-> FileDuration(path)]

(***************************************************************************)
(* CUE sheets (cue.rs).  A sheet is the list of its tracks.                *)
(***************************************************************************)
\* CueSheet::is_supported_file: by the extension.  /c/bad.cue does not parse and
\* /c/none.cue does not exist
IsCueFile(path) ==
    path \in {"/c/x.cue", "/d/y.cue", "/c/z.cue", "/e/w.cue", "/c/bad.cue", "/c/none.cue"}

CueTracks(cue) ==
    IF cue = "/c/x.cue"
    THEN << [index |-> 1, start |-> 0, duration |-> Some(16384)],
            [index |-> 2, start |-> 16384, duration |-> Some(32768)],
            [index |-> 3, start |-> 49152, duration |-> None] >>
    ELSE IF cue = "/d/y.cue"
    THEN << [index |-> 1, start |-> 0, duration |-> Some(8192)],
            [index |-> 2, start |-> 8192, duration |-> None] >>
    ELSE IF cue = "/c/z.cue"
    THEN << [index |-> 1, start |-> 0, duration |-> Some(24576)],
            [index |-> 2, start |-> 24576, duration |-> None] >>
    ELSE IF cue = "/e/w.cue"
    THEN << [index |-> 2, start |-> 4096, duration |-> Some(8192)],
            [index |-> 3, start |-> 12288, duration |-> Some(8192)],
            [index |-> 5, start |-> 20480, duration |-> None] >>
    ELSE << >>

\* CueSheet::find_source: the audio file next to the sheet that has its name
CueSource(cue) ==
    IF cue = "/c/x.cue" THEN "/c/x.flac"
    ELSE IF cue = "/c/z.cue" THEN "/c/z.flac"
    ELSE IF cue = "/d/y.cue" THEN "/d/48k.flac"
    ELSE IF cue = "/e/w.cue" THEN "/e/w.flac"
    ELSE ""

\* CueSheet::new succeeds
CueLoads(cue) == CueTracks(cue) # << >>

\* CueSheet::track
CueTrack(cue, index) ==
    LET hits == {i \in 1..Len(CueTracks(cue)) : CueTracks(cue)[i].index = index}
    IN  IF hits = {} THEN None ELSE Some(CueTracks(cue)[CHOOSE i \in hits : TRUE])

\* CueSheet::track_start: Result<Duration>
track_start(cue, index) ==
    LET t == CueTrack(cue, index)
    IN  IF t = None THEN [ok |-> FALSE, start |-> 0] ELSE [ok |-> TRUE, start |-> t[1].start]

\* the loop of track_index_by_position over tracks.iter().rev(), at the i-th
\* track; i = 0 when the loop is over
RECURSIVE tracks_rev(_, _, _)
tracks_rev(tracks, position, i) ==
    IF i = 0 THEN tracks[1].index
    ELSE IF position >= tracks[i].start THEN tracks[i].index
    ELSE tracks_rev(tracks, position, i - 1)

\* track_index_by_position with a track that begins only after its start
track_index_by_position_after_start(cue, position) ==
    LET past == {i \in 1..Len(CueTracks(cue)) : position > CueTracks(cue)[i].start}
    IN  IF past = {} THEN CueTracks(cue)[1].index
        ELSE CueTracks(cue)[CHOOSE i \in past : \A j \in past : j <= i].index

\* CueSheet::track_index_by_position
track_index_by_position(cue, position) ==
    tracks_rev(CueTracks(cue), position, Len(CueTracks(cue)))

\* CueSheet::track_meta: Option<TrackMeta> (the Result, after to_option)
track_meta(cue, index, file_meta) ==
    LET Meta(t) ==
            IF t = None THEN None
            ELSE Some([title |-> file_meta.title,
                       track |-> Some(index),
                       duration |-> IF t[1].duration # None THEN t[1].duration[1]
                                    ELSE SatSub(file_meta.duration, t[1].start)])
    IN  Meta(CueTrack(cue, index))


(***************************************************************************)
(* SymphoniaStream (symphonia_stream.rs).  next is the packet the format   *)
(* reader will return next; buffer is the scratch SampleBuffer.            *)
(***************************************************************************)
\* stream_man::open: by extension, then SymphoniaStream::open
stream_open(path) ==
    IF FileInfo(path).opens
    THEN Some([path |-> path, next |-> 0, metadata_sent |-> FALSE, buffer |-> None])
    ELSE None

\* TrackMeta::default()
TrackMetaDefault == [title |-> "", track |-> None, duration |-> 0]

\* SymphoniaStream::get_lofty_meta: None for a file whose tags and properties the
\* tag reader cannot read, though the decoder plays it
get_lofty_meta(path) == IF path = "/d/raw.flac" THEN None ELSE Some(FileMeta(path))

\* SymphoniaStream::pull_track_info, with get_lofty_meta(..).unwrap_or_default()
pull_track_info(s) ==
    IF s.metadata_sent THEN None
    ELSE IF get_lofty_meta(s.path) = None THEN Some(TrackMetaDefault)
    ELSE get_lofty_meta(s.path)

\* SymphoniaStream::read_packet: Err at the end of the stream
read_packet(s) ==
    IF s.next >= FileInfo(s.path).packets
    THEN [ok |-> FALSE, s |-> s, meta |-> None]
    ELSE [ok |-> TRUE,
          s |-> [s EXCEPT !.next = s.next + 1, !.metadata_sent = TRUE,
                          !.buffer = Some(PacketSamples(s.path))],
          meta |-> Some([channels_count |-> FileInfo(s.path).channels_count,
                         sample_rate |-> FileInfo(s.path).sample_rate,
                         track_meta |-> pull_track_info(s),
                         position |-> Some(s.next * PacketTicks(s.path))])]

\* SymphoniaStream::write: the samples appended, Err without a scratch buffer
stream_write(s) == IF s.buffer = None THEN [ok |-> FALSE, n |-> 0]
                   ELSE [ok |-> TRUE, n |-> s.buffer[1]]

\* SymphoniaStream::seek: an accurate seek lands on the packet holding pos; a seek
\* the format reader refuses is logged and answered with timestamp 0
stream_seek(s, pos) ==
    LET k == pos \div PacketTicks(s.path)
    IN  IF k < FileInfo(s.path).packets
        THEN [s |-> [s EXCEPT !.next = k, !.buffer = None],
              seeked_to |-> k * PacketTicks(s.path)]
        ELSE [s |-> [s EXCEPT !.buffer = None], seeked_to |-> 0]

(***************************************************************************)
(* Decoder (decoder.rs).                                                   *)
(***************************************************************************)
DecoderNew ==
    [stream |-> None, track |-> None, packet_meta |-> None,
     previous_packet_meta |-> None, file_meta |-> None, track_meta |-> None,
     new_track_meta |-> None, buf |-> 0, position |-> 0, at_end |-> FALSE,
     wait_empty_buf |-> FALSE, cue_factory |-> {}, cue_sheet |-> None,
     volume |-> 1000]

DecoderStop(d) ==
    [d EXCEPT !.stream = None, !.track = None, !.packet_meta = None,
              !.previous_packet_meta = None, !.file_meta = None,
              !.track_meta = None, !.new_track_meta = None, !.cue_sheet = None,
              !.position = 0, !.buf = 0]

\* CueFactory::get_or_new, then sheet_for_track's with_context: the memo is the
\* set of the CUE paths loaded
sheet_for_track(d, t) ==
    IF t.index = None THEN [ok |-> TRUE, sheet |-> None, d |-> d]
    ELSE IF t.filename \in d.cue_factory
         THEN [ok |-> TRUE, sheet |-> Some(t.filename), d |-> d]
    ELSE IF IsCueFile(t.filename) /\ CueLoads(t.filename)
         THEN [ok |-> TRUE, sheet |-> Some(t.filename),
               d |-> [d EXCEPT !.cue_factory = @ \cup {t.filename}]]
    ELSE [ok |-> FALSE, sheet |-> None, d |-> d]

sheet_and_index(d) ==
    IF d.cue_sheet # None /\ d.track # None /\ d.track[1].index # None
    THEN Some([sheet |-> d.cue_sheet[1], index |-> d.track[1].index[1]])
    ELSE None

buffer_duration(d) ==
    IF d.packet_meta = None THEN [ok |-> FALSE, dur |-> 0]
    ELSE [ok |-> TRUE,
          dur |-> d.buf \div (d.packet_meta[1].channels_count * d.packet_meta[1].sample_rate)]

playback_position(d) ==
    LET At(pos, si) ==
            IF si # None THEN SatSub(pos, track_start(si[1].sheet, si[1].index).start)
            ELSE pos
    IN  At(SatSub(d.position, buffer_duration(d).dur), sheet_and_index(d))

valid_playback_position(d) ==
    LET From(bd, si, st) ==
            IF ~bd.ok THEN [ok |-> FALSE, pos |-> 0]
            ELSE IF si = None THEN [ok |-> TRUE, pos |-> SatSub(d.position, bd.dur)]
            ELSE IF ~st.ok THEN [ok |-> FALSE, pos |-> 0]
            ELSE [ok |-> TRUE, pos |-> SatSub(SatSub(d.position, bd.dur), st.start)]
        At(bd, si) ==
            From(bd, si, IF si = None THEN [ok |-> TRUE, start |-> 0]
                         ELSE track_start(si[1].sheet, si[1].index))
    IN  At(buffer_duration(d), sheet_and_index(d))

decoder_seek_to(d, pos) ==
    LET Sought(st, r) ==
            [ok |-> TRUE,
             d |-> [d EXCEPT !.stream = Some(r.s), !.buf = 0, !.at_end = FALSE],
             seeked_to |-> SatSub(r.seeked_to, st.start)]
        From(st) ==
            IF ~st.ok \/ d.stream = None THEN [ok |-> FALSE, d |-> d, seeked_to |-> 0]
            ELSE Sought(st, stream_seek(d.stream[1], pos + st.start))
        Of(si) ==
            From(IF si = None THEN [ok |-> TRUE, start |-> 0]
                 ELSE track_start(si[1].sheet, si[1].index))
    IN  Of(sheet_and_index(d))

\* Decoder::set_volume; volumes are in thousandths
set_volume(v) == IF v < 0 THEN 0 ELSE IF v > 1000 THEN 1000 ELSE v

is_format_change(cur_meta, new_meta) ==
    /\ cur_meta # None
    /\ \/ cur_meta[1].channels_count # new_meta.channels_count
       \/ cur_meta[1].sample_rate # new_meta.sample_rate

set_track_meta(d, tm) ==
    LET Set(new) == [d EXCEPT !.track_meta = new, !.file_meta = tm, !.new_track_meta = new]
        Of(si) == Set(IF si # None THEN track_meta(si[1].sheet, si[1].index, tm[1])
                      ELSE tm)
    IN  IF tm = None THEN d ELSE Of(sheet_and_index(d))

\* Decoder::play, the gapless branch: the next index of the CUE source that is open
play_cue_next(d, t, new_sheet) ==
    [ok |-> TRUE,
     d |-> [d EXCEPT !.new_track_meta =
                         IF d.file_meta # None
                         THEN track_meta(new_sheet, t.index[1], d.file_meta[1])
                         ELSE @,
                     !.track = Some(t), !.at_end = FALSE]]

\* Decoder::play, another index of the CUE source that is open
play_cue_seek(d, t, new_sheet) ==
    LET Sought(d1, r) ==
            IF ~r.ok THEN [ok |-> FALSE, d |-> d1]
            ELSE [ok |-> TRUE,
                  d |-> [r.d EXCEPT !.new_track_meta =
                                        IF d.file_meta # None
                                        THEN track_meta(new_sheet, t.index[1],
                                                        d.file_meta[1])
                                        ELSE @,
                                    !.at_end = FALSE]]
        With(d1) == Sought(d1, decoder_seek_to(d1, 0))
    IN  With([d EXCEPT !.track_meta = None, !.track = Some(t)])

\* Decoder::play, a CUE track whose source is not the open one
play_cue_open(d, t, new_sheet) ==
    LET Sought(d1, r) ==
            IF ~r.ok THEN [ok |-> FALSE, d |-> d1]
            ELSE [ok |-> TRUE, d |-> [r.d EXCEPT !.at_end = FALSE]]
        With(d1) == Sought(d1, decoder_seek_to(d1, 0))
        Opened(s) ==
            IF s = None THEN [ok |-> FALSE, d |-> d]
            ELSE With([d EXCEPT !.stream = s, !.track_meta = None, !.file_meta = None,
                                !.track = Some(t), !.cue_sheet = Some(new_sheet)])
    IN  Opened(stream_open(CueSource(new_sheet)))

\* Decoder::play of a plain file that also clears the buffer
play_file_clears(d, t) ==
    LET Opened(d1, s) ==
            IF s = None THEN [ok |-> FALSE, d |-> d1]
            ELSE [ok |-> TRUE,
                  d |-> [d1 EXCEPT !.stream = s, !.at_end = FALSE, !.track = Some(t),
                                   !.buf = 0]]
    IN  Opened([d EXCEPT !.previous_packet_meta =
                             IF d.packet_meta # None THEN d.packet_meta ELSE @,
                         !.packet_meta = None,
                         !.track_meta = None, !.file_meta = None],
               stream_open(t.filename))

\* Decoder::play, a plain file
play_file(d, t) ==
    LET Opened(d1, s) ==
            IF s = None THEN [ok |-> FALSE, d |-> d1]
            ELSE [ok |-> TRUE,
                  d |-> [d1 EXCEPT !.stream = s, !.at_end = FALSE, !.track = Some(t)]]
    IN  Opened([d EXCEPT !.previous_packet_meta =
                             IF d.packet_meta # None THEN d.packet_meta ELSE @,
                         !.packet_meta = None,
                         !.track_meta = None, !.file_meta = None],
               stream_open(t.filename))

decoder_play(d0, t) ==
    LET With(sh) ==
            IF ~sh.ok THEN [ok |-> FALSE, d |-> sh.d]
            ELSE IF sh.sheet # None /\ t.index # None
            THEN IF /\ sh.d.stream # None /\ sh.d.cue_sheet # None
                    /\ CueSource(sh.sheet[1]) = CueSource(sh.d.cue_sheet[1])
                 THEN IF /\ sh.d.track # None /\ sh.d.track[1].index # None
                         /\ t.index[1] = sh.d.track[1].index[1] + 1
                      THEN play_cue_next(sh.d, t, sh.sheet[1])
                      ELSE play_cue_seek(sh.d, t, sh.sheet[1])
                 ELSE play_cue_open(sh.d, t, sh.sheet[1])
            ELSE play_file(sh.d, t)
    IN  With(sheet_for_track(d0, t))

\* Decoder::open and Decoder::load_meta
decoder_load_meta(d0, t) ==
    LET Done(sh, s, r, tm) ==
            IF ~sh.ok \/ s = None THEN [ok |-> FALSE, d |-> sh.d]
            ELSE IF ~r.ok \/ r.meta[1].track_meta = None \/ tm = None
            THEN [ok |-> FALSE, d |-> sh.d]
            ELSE [ok |-> TRUE,
                  d |-> [sh.d EXCEPT !.track_meta = tm,
                                     !.file_meta = r.meta[1].track_meta,
                                     !.packet_meta =
                                         Some([r.meta[1] EXCEPT !.track_meta = None]),
                                     !.cue_sheet = sh.sheet]]
        Read(sh, s, r) ==
            Done(sh, s, r, IF sh.sheet # None /\ t.index # None
                           THEN track_meta(sh.sheet[1], t.index[1],
                                           r.meta[1].track_meta[1])
                           ELSE r.meta[1].track_meta)
        Opened(sh, s) == Read(sh, s, read_packet(s[1]))
        With(sh) ==
            Opened(sh, stream_open(IF sh.sheet # None THEN CueSource(sh.sheet[1])
                                   ELSE t.filename))
    IN  With(sheet_for_track(d0, t))

can_read_more(d) == d.buf < BUFFER_SOFT_STOP

\* Decoder::read_stream, the packet read and appended
read_stream_packet(d0) ==
    LET d == [d0 EXCEPT !.previous_packet_meta = None]
        Ended(d3, si) ==
            IF /\ d3.packet_meta # None /\ d3.packet_meta[1].position # None
               /\ si # None
               /\ track_index_by_position(si[1].sheet, d3.position) > si[1].index
            THEN [res |-> "ReadEnd", d |-> [d3 EXCEPT !.at_end = TRUE]]
            ELSE [res |-> "BufferNotFull", d |-> d3]
        Positioned(d3) == Ended(d3, sheet_and_index(d3))
        Appended(d2) ==
            Positioned(IF d2.packet_meta # None /\ d2.packet_meta[1].position # None
                       THEN [d2 EXCEPT !.position = d2.packet_meta[1].position[1]]
                       ELSE d2)
        Written(r, w) ==
            LET d1 == [d EXCEPT !.stream = Some(r.s)]
                tm == r.meta[1].track_meta
                pm == [r.meta[1] EXCEPT !.track_meta = None]
            IN  IF is_format_change(d0.previous_packet_meta, r.meta[1])
                THEN [res |-> "BufferFull",
                      d |-> set_track_meta([d1 EXCEPT !.wait_empty_buf = TRUE], tm)]
                ELSE Appended(IF w.ok
                              THEN set_track_meta([d1 EXCEPT !.buf = @ + w.n,
                                                             !.packet_meta = Some(pm)],
                                                  tm)
                              ELSE d1)
        Read(r) ==
            IF ~r.ok THEN [res |-> "ReadEnd", d |-> [d EXCEPT !.at_end = TRUE]]
            ELSE Written(r, stream_write(r.s))
    IN  Read(read_packet(d.stream[1]))

decoder_read_stream(d) ==
    IF d.at_end \/ ~can_read_more(d) THEN [res |-> "BufferFull", d |-> d]
    ELSE IF d.stream = None THEN [res |-> "BufferFull", d |-> d]
    ELSE IF d.wait_empty_buf
         THEN IF d.buf # 0 THEN [res |-> "BufferFull", d |-> d]
              ELSE [res |-> "NeedResetOutput", d |-> [d EXCEPT !.wait_empty_buf = FALSE]]
    ELSE read_stream_packet(d)

create_output_stream(d) ==
    IF d.stream # None /\ d.packet_meta # None
    THEN Some([channels_count |-> d.packet_meta[1].channels_count,
               sample_rate |-> d.packet_meta[1].sample_rate])
    ELSE None

(***************************************************************************)
(* PlayerThread (player.rs).  Its methods are operators on a record w of   *)
(* the engine's state while it handles one command or one read:            *)
(* w.p is the PlayerThread, w.d its Decoder, w.tx the responses sent.      *)
(* w.sent, w.changed, w.n and w.src are ghosts: per response, the number   *)
(* of the command being handled or handled last, whether a command or a    *)
(* read sent it, the method that sent it, and the track, position and      *)
(* metadata the decoder had then.                                          *)
(***************************************************************************)
PlayerNew(position_callbacks) ==
    [playlist |-> << >>, playlist_index |-> 0, sent_playlist_index |-> None,
     position_callbacks |-> position_callbacks, triggered_callbacks |-> << >>,
     user_navigation_for_next_meta |-> FALSE, need_fast_read |-> TRUE,
     output |-> None, output_is_paused |-> FALSE]

Send(w, resp, by) ==
    [w EXCEPT !.tx = Append(@, resp),
              !.sent = Append(@, [n |-> w.n, src |-> w.src, by |-> by,
                                  playlist_index |-> w.p.playlist_index,
                                  changed |-> w.changed,
                                  track |-> w.d.track,
                                  position |-> playback_position(w.d),
                                  track_meta |-> w.d.track_meta])]

StateChanged(state, position) ==
    [type |-> "PlaybackStateChanged", state |-> state, position |-> position]

stop(w) ==
    Send([w EXCEPT !.d = DecoderStop(w.d), !.p.output = None,
                   !.p.sent_playlist_index = None],
         StateChanged("Stopped", 0), "stop")

\* the index of the playlist before is kept
set_playlist_keeps_index(w, files, cue_factory) ==
    [stop(w) EXCEPT !.d.cue_factory = IF cue_factory # None THEN cue_factory[1] ELSE {},
                    !.p.playlist = files]

set_playlist(w, files, cue_factory) ==
    [stop(w) EXCEPT !.d.cue_factory = IF cue_factory # None THEN cue_factory[1] ELSE {},
                    !.p.playlist = files, !.p.playlist_index = 0,
                    !.changed = @ \/ w.p.playlist_index # 0]

load_meta(w, index) ==
    LET Meta(r, w1) ==
            IF r.d.track_meta # None
            THEN Send(w1, [type |-> "NewMeta", meta |-> r.d.track_meta[1],
                           user_navigation |-> FALSE], "load_meta")
            ELSE w1
        Loaded(t, r) ==
            IF ~r.ok THEN [ok |-> FALSE, w |-> [w EXCEPT !.d = r.d]]
            ELSE [ok |-> TRUE,
                  w |-> Meta(r, [Send([w EXCEPT !.d = r.d, !.p.playlist_index = index,
                                                !.changed = @ \/ w.p.playlist_index # index],
                                      [type |-> "NewPlaylistIndex",
                                       playlist_index |-> index,
                                       track |-> t, user_navigation |-> FALSE],
                                      "load_meta")
                                 EXCEPT !.changed = FALSE])]
    IN  Loaded(w.p.playlist[index + 1], decoder_load_meta(w.d, w.p.playlist[index + 1]))

\* send_playlist_index with its comparison inverted
send_playlist_index_inverted(w, user_navigation) ==
    IF w.p.sent_playlist_index # None /\ w.p.sent_playlist_index[1] # w.p.playlist_index
    THEN w
    ELSE IF w.p.playlist_index >= Len(w.p.playlist) THEN w
    ELSE [Send(w, [type |-> "NewPlaylistIndex", playlist_index |-> w.p.playlist_index,
                   track |-> w.p.playlist[w.p.playlist_index + 1],
                   user_navigation |-> user_navigation], "play")
          EXCEPT !.p.sent_playlist_index = Some(w.p.playlist_index),
                 !.changed = FALSE]

send_playlist_index(w, user_navigation) ==
    IF w.p.sent_playlist_index # None /\ w.p.sent_playlist_index[1] = w.p.playlist_index
    THEN w
    ELSE IF w.p.playlist_index >= Len(w.p.playlist) THEN w
    ELSE [Send(w, [type |-> "NewPlaylistIndex", playlist_index |-> w.p.playlist_index,
                   track |-> w.p.playlist[w.p.playlist_index + 1],
                   user_navigation |-> user_navigation], "play")
          EXCEPT !.p.sent_playlist_index = Some(w.p.playlist_index),
                 !.changed = FALSE]

play(w, index_opt, user_navigation) ==
    LET index == IF index_opt # None THEN index_opt[1] ELSE w.p.playlist_index
        Moved(r) == [w EXCEPT !.p.playlist_index = index, !.d = r.d,
                              !.changed = @ \/ w.p.playlist_index # index]
        Played(r) ==
            IF index >= Len(w.p.playlist) THEN [ok |-> FALSE, w |-> w]
            ELSE IF ~r.ok THEN [ok |-> FALSE, w |-> Moved(r)]
            ELSE [ok |-> TRUE,
                  w |-> Send([send_playlist_index(
                                  [Moved(r) EXCEPT !.p.need_fast_read = TRUE,
                                                   !.p.triggered_callbacks = << >>],
                                  user_navigation)
                              EXCEPT !.p.user_navigation_for_next_meta = user_navigation],
                             StateChanged("Playing", 0), "play")]
    IN  Played(decoder_play(w.d, w.p.playlist[index + 1]))

\* fetch_next_playlist_index with the last index taken for an inner one
fetch_next_playlist_index_past_end(w, cur_index, wrap, emit_ended) ==
    IF cur_index < Len(w.p.playlist) THEN [ok |-> TRUE, index |-> cur_index + 1, w |-> w]
    ELSE IF wrap THEN [ok |-> TRUE, index |-> 0, w |-> w]
    ELSE [ok |-> FALSE, index |-> 0,
          w |-> IF emit_ended THEN Send(w, [type |-> "PlaylistEnded"], "fetch_next") ELSE w]

fetch_next_playlist_index(w, cur_index, wrap, emit_ended) ==
    IF cur_index < Len(w.p.playlist) - 1 THEN [ok |-> TRUE, index |-> cur_index + 1, w |-> w]
    ELSE IF wrap THEN [ok |-> TRUE, index |-> 0, w |-> w]
    ELSE [ok |-> FALSE, index |-> 0,
          w |-> IF emit_ended THEN Send(w, [type |-> "PlaylistEnded"], "fetch_next") ELSE w]

fetch_prev_playlist_index(pl, cur_index, wrap) ==
    IF cur_index > 0 THEN [ok |-> TRUE, index |-> cur_index - 1]
    ELSE IF wrap THEN [ok |-> TRUE, index |-> Len(pl) - 1]
    ELSE [ok |-> FALSE, index |-> 0]

RECURSIVE first_in_dir_loop(_, _, _, _, _, _)
\* the while loop of fetch_first_playlist_index_in_dir
first_in_dir_loop(pl, index, stop_index, cur_dir, wrap, files_left) ==
    LET Got(pr) ==
            IF files_left = 0 \/ ~pr.ok
            THEN [ok |-> FALSE, index |-> index, files_left |-> files_left]
            ELSE first_in_dir_loop(pl, pr.index, stop_index, cur_dir, wrap, files_left - 1)
    IN  IF index # 0 /\ index # stop_index /\ playlist_index_dir(pl, index - 1) = cur_dir
        THEN Got(fetch_prev_playlist_index(pl, index, wrap))
        ELSE [ok |-> TRUE, index |-> index, files_left |-> files_left]

\* the same without the walk back to the first index of the directory
fetch_first_playlist_index_in_dir_prev(pl, cur_index, stop_index, wrap, files_left) ==
    LET Got(pr) ==
            [ok |-> pr.ok, index |-> IF pr.ok THEN pr.index ELSE cur_index,
             files_left |-> files_left]
    IN  Got(fetch_prev_playlist_index(pl, cur_index, wrap))

fetch_first_playlist_index_in_dir(pl, cur_index, stop_index, wrap, files_left) ==
    LET From(index) ==
            first_in_dir_loop(pl, index, stop_index,
                              IF /\ index # 0 /\ index # stop_index
                                 /\ playlist_index_dir(pl, index)
                                        # playlist_index_dir(pl, cur_index)
                              THEN playlist_index_dir(pl, index)
                              ELSE playlist_index_dir(pl, cur_index),
                              wrap, files_left)
        Got(pr) ==
            IF ~pr.ok THEN [ok |-> FALSE, index |-> cur_index, files_left |-> files_left]
            ELSE From(pr.index)
    IN  Got(fetch_prev_playlist_index(pl, cur_index, wrap))

RECURSIVE next_dir_loop_past_start(_, _, _, _, _)
\* the same loop going on through index 0
next_dir_loop_past_start(w, index, cur_dir, wrap, files_left) ==
    LET Got(f) ==
            IF files_left = 0
            THEN [ok |-> FALSE, index |-> index, w |-> w, files_left |-> 0]
            ELSE IF ~f.ok
            THEN [ok |-> FALSE, index |-> index, w |-> f.w, files_left |-> files_left - 1]
            ELSE next_dir_loop_past_start(f.w, f.index, cur_dir, wrap, files_left - 1)
    IN  IF playlist_index_dir(w.p.playlist, index) = cur_dir
        THEN Got(fetch_next_playlist_index(w, index, wrap, TRUE))
        ELSE [ok |-> TRUE, index |-> index, w |-> w, files_left |-> files_left]

RECURSIVE next_dir_loop(_, _, _, _, _)
\* the while loop of MoveTo::NextDir
next_dir_loop(w, index, cur_dir, wrap, files_left) ==
    LET Got(f) ==
            IF files_left = 0
            THEN [ok |-> FALSE, index |-> index, w |-> w, files_left |-> 0]
            ELSE IF ~f.ok
            THEN [ok |-> FALSE, index |-> index, w |-> f.w, files_left |-> files_left - 1]
            ELSE next_dir_loop(f.w, f.index, cur_dir, wrap, files_left - 1)
    IN  IF index # 0 /\ playlist_index_dir(w.p.playlist, index) = cur_dir
        THEN Got(fetch_next_playlist_index(w, index, wrap, TRUE))
        ELSE [ok |-> TRUE, index |-> index, w |-> w, files_left |-> files_left]

\* the match of move_and_play: the next candidate index
\* m is the loop's state: files_left, start_index, cur_index, index_after_dir_skip
new_playlist_index(w, step, wrap, m) ==
    LET fail(w1) == [ok |-> FALSE, index |-> 0, w |-> w1, m |-> m]
        done(i, w1, fl, skip) ==
            [ok |-> TRUE, index |-> i, w |-> w1,
             m |-> [m EXCEPT !.files_left = fl, !.index_after_dir_skip = skip]]
        OfNext(fn) ==
            IF fn.ok THEN done(fn.index, fn.w, m.files_left, m.index_after_dir_skip)
            ELSE fail(fn.w)
        OfPrev(fp) ==
            IF fp.ok THEN done(fp.index, w, m.files_left, m.index_after_dir_skip)
            ELSE fail(w)
        Skipped(nd) ==
            IF nd.ok THEN done(nd.index, nd.w, nd.files_left, Some(nd.index))
            ELSE fail(nd.w)
        OfNextDir(fn) ==
            IF ~fn.ok THEN fail(fn.w)
            ELSE IF m.index_after_dir_skip # None
            THEN done(fn.index, fn.w, m.files_left, m.index_after_dir_skip)
            ELSE Skipped(next_dir_loop(fn.w, fn.index,
                                       playlist_index_dir(w.p.playlist, m.cur_index),
                                       wrap, m.files_left))
        First(ff) ==
            IF ff.ok THEN done(ff.index, w, ff.files_left, Some(ff.index))
            ELSE fail(w)
        first(from) ==
            First(fetch_first_playlist_index_in_dir(w.p.playlist, from, m.start_index,
                                                    wrap, m.files_left))
        OfPrevDir(fq) ==
            IF m.index_after_dir_skip = None THEN first(m.cur_index)
            ELSE IF /\ fq.ok /\ m.start_index # fq.index
                    /\ playlist_index_dir(w.p.playlist, fq.index)
                           = playlist_index_dir(w.p.playlist, m.cur_index)
            THEN done(fq.index, w, m.files_left, m.index_after_dir_skip)
            ELSE first(m.index_after_dir_skip[1])
    IN  CASE step = "Next" ->
                OfNext(fetch_next_playlist_index(w, m.cur_index, wrap, TRUE))
          [] step = "Prev" ->
                OfPrev(fetch_prev_playlist_index(w.p.playlist, m.cur_index, wrap))
          [] step = "NextDir" ->
                OfNextDir(fetch_next_playlist_index(w, m.cur_index, wrap, TRUE))
          [] step = "PrevDir" ->
                OfPrevDir(fetch_next_playlist_index(w, m.cur_index, wrap, FALSE))

\* one pass of the loop of move_and_play whose files_left is never decreased
move_and_play_step_no_dec(w, step, wrap, user_navigation, m) ==
    LET Played(sel, r) ==
            IF r.ok THEN [returned |-> TRUE, ok |-> TRUE, played |-> TRUE, w |-> r.w,
                          m |-> sel.m]
            ELSE [returned |-> FALSE, ok |-> FALSE, played |-> TRUE, w |-> r.w,
                  m |-> [sel.m EXCEPT !.cur_index = r.w.p.playlist_index,
                                      !.files_left = m.files_left]]
        Selected(sel) ==
            IF ~sel.ok THEN [returned |-> TRUE, ok |-> FALSE, played |-> FALSE,
                             w |-> sel.w, m |-> sel.m]
            ELSE Played(sel, play(sel.w, Some(sel.index), user_navigation))
    IN  IF m.files_left = 0
        THEN [returned |-> TRUE, ok |-> FALSE, played |-> FALSE, w |-> w, m |-> m]
        ELSE Selected(new_playlist_index(w, step, wrap,
                                         [m EXCEPT !.files_left = @ - 1]))

\* one pass of the loop of move_and_play: dec_valid_files, the new index, play.
\* returned tells whether move_and_play returns in this pass, played whether the
\* pass has called play
move_and_play_step(w, step, wrap, user_navigation, m) ==
    LET Played(sel, r) ==
            IF r.ok THEN [returned |-> TRUE, ok |-> TRUE, played |-> TRUE, w |-> r.w,
                          m |-> sel.m]
            ELSE [returned |-> FALSE, ok |-> FALSE, played |-> TRUE, w |-> r.w,
                  m |-> [sel.m EXCEPT !.cur_index = r.w.p.playlist_index]]
        Selected(sel) ==
            IF ~sel.ok THEN [returned |-> TRUE, ok |-> FALSE, played |-> FALSE,
                             w |-> sel.w, m |-> sel.m]
            ELSE Played(sel, play(sel.w, Some(sel.index), user_navigation))
    IN  IF m.files_left = 0
        THEN [returned |-> TRUE, ok |-> FALSE, played |-> FALSE, w |-> w, m |-> m]
        ELSE Selected(new_playlist_index(w, step, wrap,
                                         [m EXCEPT !.files_left = @ - 1]))

RECURSIVE move_and_play_loop(_, _, _, _, _)
move_and_play_loop(w, step, wrap, user_navigation, m) ==
    LET Stepped(s) ==
            IF s.returned THEN [ok |-> s.ok, w |-> s.w]
            ELSE move_and_play_loop(s.w, step, wrap, user_navigation, s.m)
    IN  Stepped(move_and_play_step(w, step, wrap, user_navigation, m))

\* the local variables of move_and_play when the loop is entered
move_and_play_enter(w) ==
    [files_left |-> Len(w.p.playlist), start_index |-> w.p.playlist_index,
     cur_index |-> w.p.playlist_index, index_after_dir_skip |-> None]

move_and_play(w, step, wrap, user_navigation) ==
    IF Len(w.p.playlist) = 0 THEN [ok |-> FALSE, w |-> w]
    ELSE move_and_play_loop(w, step, wrap, user_navigation, move_and_play_enter(w))

next(w, wrap, user_navigation) == move_and_play(w, "Next", wrap, user_navigation)
prev(w) == move_and_play(w, "Prev", TRUE, TRUE)
next_dir(w) == move_and_play(w, "NextDir", TRUE, TRUE)
prev_dir(w) == move_and_play(w, "PrevDir", TRUE, TRUE)

pause(w) ==
    IF w.p.output = None THEN w
    ELSE Send([w EXCEPT !.p.output_is_paused = TRUE],
              StateChanged("Paused", playback_position(w.d)), "pause")

unpause(w) ==
    IF w.p.output = None THEN w
    ELSE Send([w EXCEPT !.p.output_is_paused = FALSE],
              StateChanged("Playing", playback_position(w.d)), "unpause")

seek_to(w, pos) ==
    LET Sought(r) ==
            IF ~r.ok THEN w
            ELSE Send([w EXCEPT !.d = r.d],
                      [type |-> "Seeked", position |-> r.seeked_to], "seek_to")
    IN  Sought(decoder_seek_to(w.d, pos))

send_position(w) ==
    Send(w, [type |-> "PositionRequested", position |-> playback_position(w.d)],
         "send_position")

RECURSIVE load_meta_loop(_, _)
\* the while loop of PlayerCmd::LoadMeta
load_meta_loop(w, index) ==
    LET Loaded(r) == IF r.ok THEN r.w ELSE load_meta_loop(r.w, index + 1)
    IN  IF index < Len(w.p.playlist) THEN Loaded(load_meta(w, index)) ELSE w

\* the PlayerCmd::Play arm, moving on with wrap = true
cmd_play_wrap(w, index) ==
    LET Played(p1) == IF p1.ok THEN p1.w ELSE next(p1.w, TRUE, TRUE).w
    IN  Played(play(stop(w), index, TRUE))

\* the PlayerCmd::Play arm without its call of stop
cmd_play_no_stop(w, index) ==
    LET Played(p1) == IF p1.ok THEN p1.w ELSE next(p1.w, FALSE, TRUE).w
    IN  Played(play(w, index, TRUE))

\* the PlayerCmd::Play arm of process_client_cmd
cmd_play(w, index) ==
    LET Played(p1) == IF p1.ok THEN p1.w ELSE next(p1.w, FALSE, TRUE).w
    IN  Played(play(stop(w), index, TRUE))

\* the PlayerCmd::Exit arm returning true
cmd_exit_goes_on(w) == [cont |-> TRUE, w |-> Send(w, [type |-> "Exited"], "exit")]

\* the PlayerCmd::Exit arm of process_client_cmd
cmd_exit(w) == [cont |-> FALSE, w |-> Send(w, [type |-> "Exited"], "exit")]

\* process_client_cmd, the match on the command received
process_client_cmd(w, cmd) ==
    LET keep(w1) == [cont |-> TRUE, w |-> w1]
    IN  CASE cmd.type = "SetPlaylist" -> keep(set_playlist(w, cmd.tracks, cmd.cue_factory))
          [] cmd.type = "LoadMeta" -> keep(load_meta_loop(stop(w), cmd.index))
          [] cmd.type = "Play" -> keep(cmd_play(w, cmd.index))
          [] cmd.type = "Stop" -> keep(stop(w))
          [] cmd.type = "RequestPosition" -> keep(send_position(w))
          [] cmd.type = "Next" -> keep(next(stop(w), TRUE, TRUE).w)
          [] cmd.type = "Prev" -> keep(prev(stop(w)).w)
          [] cmd.type = "NextDir" -> keep(next_dir(stop(w)).w)
          [] cmd.type = "PrevDir" -> keep(prev_dir(stop(w)).w)
          [] cmd.type = "Pause" -> keep(pause(w))
          [] cmd.type = "UnPause" -> keep(unpause(w))
          [] cmd.type = "SeekBy" ->
                keep(seek_to(w, IF cmd.forward THEN playback_position(w.d) + cmd.length
                                ELSE SatSub(playback_position(w.d), cmd.length)))
          [] cmd.type = "SeekTo" -> keep(seek_to(w, cmd.position))
          [] cmd.type = "SetVolume" ->
                keep(Send([w EXCEPT !.d.volume = set_volume(cmd.volume)],
                          [type |-> "VolumeSet", volume |-> set_volume(cmd.volume)],
                          "set_volume"))
          [] cmd.type = "Exit" -> cmd_exit(w)

send_new_meta(w) ==
    IF w.d.new_track_meta = None THEN w
    ELSE [Send([w EXCEPT !.d.new_track_meta = None],
               [type |-> "NewMeta", meta |-> w.d.new_track_meta[1],
                user_navigation |-> w.p.user_navigation_for_next_meta], "send_new_meta")
          EXCEPT !.p.user_navigation_for_next_meta = FALSE]

\* the match on the marker in process_position_callbacks
must_trigger(callback, position, duration) ==
    IF callback.marker = "SecsFromStart" THEN position >= callback.secs
    ELSE position >= SatSub(duration, callback.secs)

\* the test of triggered_callbacks left out
is_triggered_never(p, id) == FALSE

\* self.triggered_callbacks.contains(&callback.id)
is_triggered(p, id) ==
    \E i \in 1..Len(p.triggered_callbacks) : p.triggered_callbacks[i] = id

RECURSIVE callbacks_loop(_, _, _, _)
\* the for loop of process_position_callbacks
callbacks_loop(w, callbacks, position, duration) ==
    LET Called(callback) ==
            callbacks_loop(IF /\ ~is_triggered(w.p, callback.id)
                              /\ must_trigger(callback, position, duration)
                           THEN [Send(w, [type |-> "PositionCallback",
                                          callback |-> callback],
                                      "process_position_callbacks")
                                 EXCEPT !.p.triggered_callbacks = Append(@, callback.id)]
                           ELSE w,
                           Tail(callbacks), position, duration)
    IN  IF callbacks = << >> THEN w ELSE Called(Head(callbacks))

process_position_callbacks(w) ==
    LET At(vp) ==
            IF w.p.position_callbacks = None \/ w.d.track_meta = None \/ ~vp.ok THEN w
            ELSE callbacks_loop(w, w.p.position_callbacks[1], vp.pos,
                                w.d.track_meta[1].duration)
    IN  At(valid_playback_position(w.d))

\* the end of a track, moving on with wrap = true
next_track_wrap(w) ==
    LET Moved(nx) ==
            IF nx.ok THEN [ret |-> TRUE, w |-> nx.w]
            ELSE [ret |-> FALSE, w |-> stop(nx.w)]
    IN  Moved(next(w, TRUE, FALSE))

\* read_stream, when the decoder's read ended the track
next_track(w) ==
    LET Moved(nx) ==
            IF nx.ok THEN [ret |-> TRUE, w |-> nx.w]
            ELSE [ret |-> FALSE, w |-> stop(nx.w)]
    IN  Moved(next(w, FALSE, FALSE))

\* read_stream, the match on the decoder's result
read_stream_result(res, w) ==
    LET Created(out) ==
            [ret |-> FALSE,
             w |-> [w EXCEPT !.p.output = out,
                             !.p.output_is_paused = IF out # None THEN FALSE ELSE @]]
    IN  IF res = "ReadEnd" THEN next_track(w)
        ELSE IF res = "BufferFull" /\ w.p.output = None
        THEN Created(create_output_stream(w.d))
        ELSE [ret |-> res = "BufferNotFull", w |-> w]

\* read_stream, the position callbacks while the output plays
read_stream_notify(res, w) ==
    read_stream_result(res, IF w.p.output # None /\ ~w.p.output_is_paused
                            THEN process_position_callbacks(w) ELSE w)

\* read_stream, after the decoder's read: the output dropped on a reset, the
\* new metadata sent
read_stream_read(w, r) ==
    read_stream_notify(r.res,
                       send_new_meta([w EXCEPT !.d = r.d,
                                               !.p.output = IF r.res = "NeedResetOutput"
                                                            THEN None ELSE @]))

\* PlayerThread::read_stream: ret is its result
read_stream(w) == read_stream_read(w, decoder_read_stream(w.d))

(***************************************************************************)
(* The commands the clients send (PlayerTx) and what the engine is given.  *)
(***************************************************************************)
File(path) == [filename |-> path, index |-> None]
Cue(path, index) == [filename |-> path, index |-> Some(index)]

Cmd(type) == [type |-> type]
SetPlaylist(tracks, cue_factory) ==
    [type |-> "SetPlaylist", tracks |-> tracks, cue_factory |-> cue_factory]
Play(index) == [type |-> "Play", index |-> index]
LoadMeta(index) == [type |-> "LoadMeta", index |-> index]
SeekTo(position) == [type |-> "SeekTo", position |-> position]
SeekBy(forward, length) == [type |-> "SeekBy", forward |-> forward, length |-> length]
SetVolume(volume) == [type |-> "SetVolume", volume |-> volume]

from_start(id, secs) == [id |-> id, marker |-> "SecsFromStart", secs |-> secs]
from_end(id, secs) == [id |-> id, marker |-> "SecsFromEnd", secs |-> secs]

PlaylistDirs == << File("/a/1.flac"), File("/a/2.flac"), File("/b/1.flac") >>
PlaylistBad == << File("/b/bad.flac"), File("/a/1.flac"), File("/c/bad.flac"),
                  File("/a/2.flac"), File("/b/bad.flac") >>
PlaylistLong == << File("/b/long.flac") >>
PlaylistCue == << Cue("/c/x.cue", 1), Cue("/c/x.cue", 2), Cue("/c/x.cue", 3) >>

Callbacks == Some(<< from_start(0, 16384), from_end(1, 16384) >>)

\* the commands of App::start and App::init_playlist, then what the clients may
\* send; data_len is the size of the buffer the device hands to the callback
Env(playlist, first, commands) ==
    [position_callbacks |-> Callbacks,
     startup |-> << SetPlaylist(playlist, None), first >>,
     commands |-> commands,
     data_len |-> {32768}]

Navigation == << Cmd("Next"), Cmd("Prev"), Cmd("NextDir"), Cmd("PrevDir"), Play(None) >>
Replaying == << Cmd("Next"), Cmd("Prev"), Play(None) >>
Skipping == << Play(Some(4)), Play(Some(2)), Cmd("Next"), Cmd("Stop"),
               Cmd("RequestPosition"), SetVolume(500) >>
Transport == << SeekTo(0), SeekBy(TRUE, 16384), Cmd("Pause"), Cmd("UnPause") >>
Gapless == << Cmd("Next"), Cmd("Prev") >>
Leaving == << Cmd("Exit"), Play(Some(1)), Cmd("Stop") >>

LeavingEnv == Env(PlaylistDirs, Play(Some(0)), Leaving)

Envs ==
   << Env(PlaylistDirs, LoadMeta(0), Navigation),
      Env(PlaylistDirs, Play(Some(1)), Replaying),
      Env(PlaylistBad, Play(Some(0)), Skipping),
      Env(PlaylistLong, Play(Some(0)), Transport),
      Env(PlaylistCue, Play(Some(0)), Gapless),
      LeavingEnv >>

\* playlists whose tracks differ in sample rate: a file long enough for its Output
\* to exist when it ends, a file that ends before any Output exists, and a file
\* followed by the tracks of a CUE sheet
PlaylistRates == << File("/b/long.flac"), File("/d/48k.flac") >>
PlaylistShort == << File("/a/1.flac"), File("/d/48k.flac") >>
PlaylistToCue == << File("/b/long.flac"), Cue("/d/y.cue", 1), Cue("/d/y.cue", 2) >>

Unattended == << >>
Listening == << Cmd("RequestPosition"), Cmd("Pause"), Cmd("UnPause") >>

FormatEnvs ==
   << Env(PlaylistRates, Play(Some(0)), Unattended),
      Env(PlaylistShort, Play(Some(0)), Unattended),
      Env(PlaylistToCue, Play(Some(0)), Listening),
      Env(PlaylistRates, Play(Some(0)), Listening) >>

\* seeking inside a file and inside the tracks of CUE sheets, one of them with a
\* track that starts inside a packet of its source
PlaylistInside == << Cue("/c/z.cue", 1), Cue("/c/z.cue", 2) >>

Seeking == << SeekTo(40960), SeekTo(8192), SeekBy(FALSE, 16384), Cmd("Pause") >>

SeekEnvs ==
   << Env(PlaylistLong, Play(Some(0)), Seeking),
      Env(PlaylistCue, Play(Some(1)), Seeking),
      Env(PlaylistInside, Play(Some(1)), Seeking) >>

\* moving by directory from each index the application may have saved: a playlist
\* sorted by directory, and one in which the tracks of a directory are not next
\* to each other
PlaylistAlbums == << File("/a/1.flac"), File("/a/2.flac"), File("/b/1.flac"),
                     File("/b/2.flac"), File("/c/1.flac") >>
PlaylistMixed == << File("/a/1.flac"), File("/b/1.flac"), File("/a/2.flac") >>

DirMoves == << Cmd("NextDir"), Cmd("PrevDir") >>

DirEnvs ==
    [i \in 1..Len(PlaylistAlbums) |-> Env(PlaylistAlbums, LoadMeta(i - 1), DirMoves)]
    \o [i \in 1..Len(PlaylistMixed) |-> Env(PlaylistMixed, LoadMeta(i - 1), DirMoves)]

\* a file the decoder plays and the tag reader cannot read, alone and before a
\* tagged file
PlaylistRaw == << File("/d/raw.flac") >>
PlaylistRawFirst == << File("/d/raw.flac"), File("/a/1.flac") >>

RawEnvs ==
   << Env(PlaylistRaw, Play(Some(0)), Listening),
      Env(PlaylistRawFirst, Play(Some(0)), Unattended) >>

\* scrobbling: a long track that is sought in, followed by another track
PlaylistScrobble == << File("/b/long.flac"), File("/a/1.flac") >>

Scrubbing == << SeekTo(40960), SeekTo(0) >>

ScrobbleEnv == Env(PlaylistScrobble, Play(Some(0)), Scrubbing)

(***************************************************************************)
(* The state machine.                                                      *)
(***************************************************************************)
\* the commands of a list, numbered from k + 1 in the order they are sent
RECURSIVE Numbered(_, _)
Numbered(commands, k) ==
    IF commands = << >> THEN << >>
    ELSE << [cmd |-> Head(commands), seq |-> k + 1] >> \o Numbered(Tail(commands), k + 1)

(***************************************************************************)
(* Paths given on the command line (playlist_man.rs).  The directories of  *)
(* the library list their files in the order the file system gives them.   *)
(***************************************************************************)
DirEntries(dir) ==
    CASE dir = "/a" -> << "/a/2.flac", "/a/1.flac" >>
      [] dir = "/b" -> << "/b/long.flac", "/b/1.flac", "/b/bad.flac", "/b/2.flac" >>
      [] dir = "/c" -> << "/c/z.flac", "/c/x.cue", "/c/cover.jpg", "/c/x.flac",
                          "/c/bad.cue", "/c/1.flac", "/c/z.cue", "/c/bad.flac" >>
      [] dir = "/d" -> << "/d/y.cue", "/d/raw.flac", "/d/48k.flac" >>
      [] OTHER -> << >>

\* stream_man::is_path_supported: by the extension
is_path_supported(path) == FileInfo(path).dir # ""

IsFile(path) == is_path_supported(path) \/ IsCueFile(path) \/ path = "/c/cover.jpg"

\* WalkDir::new(path), the files only: a directory gives its files, a file
\* itself, a path that does not exist nothing
WalkDir(path) ==
    IF DirEntries(path) # << >> THEN DirEntries(path)
    ELSE IF IsFile(path) THEN << path >>
    ELSE << >>

\* Absolutize::absolutize: a relative path is joined to the working directory
\* cwd of the process that calls it
absolutize(path, cwd) ==
    CASE path = "." -> cwd
      [] path = "1.flac" -> (CASE cwd = "/a" -> "/a/1.flac"
                               [] cwd = "/b" -> "/b/1.flac"
                               [] cwd = "/c" -> "/c/1.flac"
                               [] OTHER -> "")
      [] path = "x.cue" -> (IF cwd = "/c" THEN "/c/x.cue" ELSE "")
      [] OTHER -> path

\* the place of a file name in alphanumeric_sort::compare_str of the upper-cased
\* names
SortRank(path) ==
    CASE path = "/a/1.flac" -> 1 [] path = "/a/2.flac" -> 2
      [] path = "/b/1.flac" -> 3 [] path = "/b/2.flac" -> 4
      [] path = "/b/bad.flac" -> 5 [] path = "/b/long.flac" -> 6
      [] path = "/c/1.flac" -> 7 [] path = "/c/bad.cue" -> 8
      [] path = "/c/bad.flac" -> 9 [] path = "/c/cover.jpg" -> 10
      [] path = "/c/x.cue" -> 11 [] path = "/c/x.flac" -> 12
      [] path = "/c/z.cue" -> 13 [] path = "/c/z.flac" -> 14
      [] path = "/d/48k.flac" -> 15 [] path = "/d/raw.flac" -> 16
      [] path = "/d/y.cue" -> 17
      [] OTHER -> 0

\* CueFactory::get_or_new on the memo sheets, the set of the sheets loaded: the
\* sheet of a loaded path is known by the path.  parsed tells whether
\* CueSheet::new has read and parsed the file
get_or_new(sheets, filename) ==
    IF filename \in sheets
    THEN [ok |-> TRUE, sheet |-> Some(filename), sheets |-> sheets, parsed |-> FALSE]
    ELSE IF ~IsCueFile(filename)
    THEN [ok |-> TRUE, sheet |-> None, sheets |-> sheets, parsed |-> FALSE]
    ELSE IF CueLoads(filename)
    THEN [ok |-> TRUE, sheet |-> Some(filename), sheets |-> sheets \cup {filename},
          parsed |-> TRUE]
    ELSE [ok |-> FALSE, sheet |-> None, sheets |-> sheets, parsed |-> TRUE]

\* CueSheet::track_ids
track_ids(cue) == [k \in 1..Len(CueTracks(cue)) |-> CueTracks(cue)[k].index]

\* the tracks of a sheet carry the audio file of the sheet
cue_tracks_of_source(path) ==
    [k \in 1..Len(track_ids(path)) |-> Cue(CueSource(path), track_ids(path)[k])]

\* collect_tracks: the tracks of a sheet, one per track id, with the path of the
\* sheet as filename
cue_tracks(path) == [k \in 1..Len(track_ids(path)) |-> Cue(path, track_ids(path)[k])]

RECURSIVE tracks_of_files(_, _, _)
\* collect_tracks, the second filter_map over the files found
tracks_of_files(files, sheets, tracks) ==
    LET Sheet(r) ==
            tracks_of_files(Tail(files), r.sheets,
                            IF r.ok /\ r.sheet # None
                            THEN tracks \o cue_tracks(Head(files))
                            ELSE tracks)
    IN  IF files = << >> THEN [tracks |-> tracks, sheets |-> sheets]
        ELSE IF is_path_supported(Head(files))
        THEN tracks_of_files(Tail(files), sheets, Append(tracks, File(Head(files))))
        ELSE Sheet(get_or_new(sheets, Head(files)))

\* a.filename before b.filename, then a.index before b.index (None first)
TrackBefore(a, b) ==
    \/ SortRank(a.filename) < SortRank(b.filename)
    \/ /\ SortRank(a.filename) = SortRank(b.filename)
       /\ \/ a.index = None /\ b.index # None
          \/ a.index # None /\ b.index # None /\ a.index[1] < b.index[1]

RECURSIVE sort_by(_)
\* tracks.sort_by: a stable sort
sort_by(tracks) ==
    LET Insert(t, sorted) ==
            SelectSeq(sorted, LAMBDA x : ~TrackBefore(t, x)) \o << t >>
            \o SelectSeq(sorted, LAMBDA x : TrackBefore(t, x))
    IN  IF tracks = << >> THEN << >>
        ELSE Insert(tracks[Len(tracks)], sort_by(SubSeq(tracks, 1, Len(tracks) - 1)))

RECURSIVE files_of_paths(_, _)
\* collect_tracks, up to the first filter_map: the files under the paths
files_of_paths(paths, cwd) ==
    IF paths = << >> THEN << >>
    ELSE WalkDir(absolutize(Head(paths), cwd)) \o files_of_paths(Tail(paths), cwd)

\* collect_tracks in a process whose working directory is cwd
collect_tracks(paths, cwd) ==
    LET Sorted(found) ==
            [tracks |-> sort_by(SelectSeq(found.tracks,
                                          LAMBDA t : \A c \in found.sheets :
                                                         CueSource(c) # t.filename)),
             cue_factory |-> found.sheets]
    IN  Sorted(tracks_of_files(files_of_paths(paths, cwd), {}, << >>))

(***************************************************************************)
(* The scrobbling services (lastfm.rs, listenbrainz.rs).  A listen is known *)
(* by its timestamp; the clock gives every listen a later second than the  *)
(* one before.  The file of unsent listens is the list last saved to it.   *)
(***************************************************************************)
MAX_SCROBBLES == 50
MAX_IMPORT == 25
MaxListens == 52

Services ==
    << [name |-> "Last.fm", max |-> MAX_SCROBBLES],
       [name |-> "ListenBrainz", max |-> MAX_IMPORT] >>

\* LastFM::new_or_none, ListenBrainz::new with no file of unsent listens.  done is
\* a ghost: the API thread that ended last, ended counts the ended threads
ScrobblerNew(service) ==
    [service |-> service.name, max |-> service.max, not_scrobbled |-> << >>,
     file |-> << >>, api_thread |-> None, clock |-> 0, done |-> None, ended |-> 0]

\* items.retain(|i| !timestamps.contains(&i.timestamp))
retain(items, timestamps) ==
    SelectSeq(items, LAMBDA i : \A k \in 1..Len(timestamps) : timestamps[k] # i.timestamp)

\* the oldest listens sent first
batch_oldest(items, max) == SubSeq(items, 1, Min(max, Len(items)))

\* &items[first_item_index..items_len]
batch(items, max) ==
    SubSeq(items, (IF Len(items) >= max THEN Len(items) - max ELSE 0) + 1, Len(items))

\* the closure of the API thread: the call has succeeded or failed
api_thread_run(s, ok) ==
    LET thread == s.api_thread[1]
        Saved(items) ==
            [s EXCEPT !.not_scrobbled = items,
                      !.file = IF \/ items # << >>
                                  \/ ~thread.was_empty
                                  \/ (s.service = "ListenBrainz" /\ ~ok)
                               THEN items ELSE @,
                      !.api_thread = None,
                      !.done = Some([timestamps |-> thread.timestamps, ok |-> ok]),
                      !.ended = @ + 1]
    IN  Saved(IF ok THEN retain(s.not_scrobbled, thread.timestamps) ELSE s.not_scrobbled)

\* wait_for_api_thread: the thread, if there is one, ends before the join returns
wait_for_api_thread(s, ok) == IF s.api_thread = None THEN s ELSE api_thread_run(s, ok)

\* LastFM::scrobble, ListenBrainz::submit: the listen is pushed and the batch is
\* taken, then the thread of the call before is joined and the new one is spawned
scrobble(s, ok) ==
    LET Spawned(items) ==
            [wait_for_api_thread([s EXCEPT !.not_scrobbled = items, !.clock = @ + 1], ok)
             EXCEPT !.api_thread =
                        Some([timestamps |-> [k \in 1..Len(batch(items, s.max)) |->
                                                  batch(items, s.max)[k].timestamp],
                              was_empty |-> s.not_scrobbled = << >>])]
    IN  Spawned(Append(s.not_scrobbled, [timestamp |-> s.clock + 1]))

(***************************************************************************)
(* The single instance (singleton.rs, entry.rs).  Every process runs main: *)
(* Singleton::new, then either the forwarding of its payload or app::start *)
(* and Singleton::listen.  The payload of process p is p.                  *)
(***************************************************************************)
MaxProcs == 3

Procs == 1..MaxProcs

\* socket is the process that has bound the name, 0 when there is none;
\* lock_file tells whether <name>.lock exists and locked_by is the process that
\* holds its write lock, 0 when there is none; inbox holds the payloads written to
\* the socket and not yet read, delivered the ones handed to on_data
SingletonNew ==
    [pc |-> [p \in Procs |-> "new"], socket |-> 0, lock_file |-> FALSE,
     locked_by |-> 0, inbox |-> << >>, delivered |-> << >>]

\* Singleton::new up to the connect: with a listener the payload is written as one
\* line and main returns, else the lock file is next
connect(z, p) ==
    IF z.socket # 0
    THEN [z EXCEPT !.inbox = Append(@, p), !.pc[p] = "forwarded"]
    ELSE [z EXCEPT !.pc[p] = "create_lock_file"]

\* create_lock_file: the file is opened (created, truncated), write-locked and
\* written
create_lock_file(z, p) ==
    [z EXCEPT !.lock_file = TRUE, !.locked_by = p, !.pc[p] = "locked"]

\* create_lock_file: drop(write_file) releases the lock; Singleton::new returns
\* Some and main goes on to app::start
drop_write_file(z, p) == [z EXCEPT !.locked_by = 0, !.pc[p] = "starting"]

\* Drop for Singleton: flock is dropped and the file removed
drop_singleton(z) == [z EXCEPT !.lock_file = FALSE]

\* Singleton::listen after app::start: bind, then the thread; self is dropped when
\* listen returns, with the listener or with the error of bind
listen(z, p) ==
    drop_singleton(IF z.socket = 0
                   THEN [z EXCEPT !.socket = p, !.pc[p] = "listening"]
                   ELSE [z EXCEPT !.pc[p] = "failed"])

\* the thread of listen: process_connection, then on_data
process_connection(z) ==
    [z EXCEPT !.delivered = Append(@, Head(z.inbox)), !.inbox = Tail(@)]

\* app_handle.wait() returns and main ends: the socket goes with the process
quit(z, p) == [z EXCEPT !.socket = 0, !.pc[p] = "exited"]

\* AppState::default, with no state.json; volumes are in thousandths
AppStateDefault == [playlist_index |-> None, volume |-> 1000]

\* the threads after app::start: the main thread about to call AppHandle::wait,
\* the hotkey thread at the head of its loop, the App mutex free
ThreadsNew ==
    [mutex |-> "", poisoned |-> FALSE, stop_flag |-> FALSE, main |-> "join_player",
     hotkeys |-> "check", action |-> "", events |-> 0, quits |-> 0]

\* the App of the first run: no state.json yet
AppStateFirst == [state |-> AppStateDefault, file |-> None, runs |-> 1]

AppIdle == app_state = AppStateFirst /\ cues = None /\ threads = ThreadsNew

OutsideIdle ==
    /\ scrobbler = ScrobblerNew(Services[1])
    /\ singleton = SingletonNew
    /\ AppIdle

World ==
    [p |-> player, d |-> decoder, tx |-> tx, sent |-> sent, changed |-> changed,
     n |-> IF cmds = << >> THEN 0 ELSE cmds[Len(cmds)].seq, src |-> "read"]

\* the engine thread started by Player::new, the startup commands of the App
\* already in the channel
EngineOn(e) ==
    /\ env = e
    /\ player = PlayerNew(e.position_callbacks)
    /\ decoder = DecoderNew
    /\ rx = Numbered(e.startup, 0)
    /\ tx = << >>
    /\ pc = "cmd"
    /\ packets_left = 0
    /\ received = 0
    /\ consumer = "running"
    /\ sent = << >>
    /\ changed = FALSE
    /\ nsent = Len(e.startup)
    /\ cmds = << >>

InitOf(e) == EngineOn(e) /\ OutsideIdle

Init == \E i \in 1..Len(Envs) : InitOf(Envs[i])

\* a channel that hands out the newest command first
recv_newest(channel) == channel[Len(channel)]

\* Receiver::recv_timeout on a channel that holds a command (player.rs:487)
recv(channel) == Head(channel)

\* PlayerTx::send, from any client thread.  The engine looks at the channel only
\* when it receives, so a send is taken just before a receive.
ClientSend ==
    /\ UNCHANGED outside
    /\ nsent < Len(env.startup) + MaxCmds + 3 * Len(singleton.delivered)
    /\ pc = "cmd"
    /\ \E i \in 1..Len(env.commands) :
           rx' = Append(rx, [cmd |-> env.commands[i], seq |-> nsent + 1])
    /\ nsent' = nsent + 1
    /\ UNCHANGED <<env, player, decoder, tx, pc, packets_left, received, consumer,
                   sent, changed, cmds>>

\* process, with a command in the channel: recv_timeout returns it
ProcessClientCmd ==
    /\ UNCHANGED outside
    /\ pc = "cmd"
    /\ rx # << >>
    /\ LET Apply(c, r) ==
               /\ player' = r.w.p
               /\ decoder' = r.w.d
               /\ tx' = r.w.tx
               /\ sent' = r.w.sent
               /\ changed' = r.w.changed
               /\ pc' = IF r.cont THEN "read" ELSE "exited"
               /\ rx' = SelectSeq(rx, LAMBDA x : x.seq # c.seq)
               /\ cmds' = Append(cmds, c)
       IN  Apply(recv(rx),
                 process_client_cmd([World EXCEPT !.n = recv(rx).seq, !.src = "cmd"],
                                    recv(rx).cmd))
    /\ packets_left' = READ_PACKETS_PER_CYCLE
    /\ UNCHANGED <<env, received, consumer, nsent>>

\* process, with no command in the channel: recv_timeout times out
RecvTimeout ==
    /\ UNCHANGED outside
    /\ pc = "cmd"
    /\ rx = << >>
    /\ pc' = "read"
    /\ packets_left' = READ_PACKETS_PER_CYCLE
    /\ UNCHANGED <<env, player, decoder, rx, tx, received, consumer, sent, changed,
                   nsent, cmds>>

\* one iteration of read_stream_packets_batch, and process's assignment of
\* need_fast_read when the batch ends
ReadStream ==
    /\ UNCHANGED outside
    /\ pc = "read"
    /\ LET Batch(r) ==
               LET more == r.ret /\ packets_left > 1
               IN  /\ player' = IF more THEN r.w.p
                                ELSE [r.w.p EXCEPT !.need_fast_read = r.ret]
                   /\ decoder' = r.w.d
                   /\ tx' = r.w.tx
                   /\ sent' = r.w.sent
                   /\ changed' = r.w.changed
                   /\ pc' = IF more THEN "read" ELSE "cmd"
                   /\ packets_left' = IF more THEN packets_left - 1 ELSE 0
       IN  Batch(read_stream(World))
    /\ UNCHANGED <<env, rx, received, consumer, nsent, cmds>>

\* the output stream's data callback (decoder.rs:432-452), on the device's thread;
\* the Output is dropped with the PlayerThread when the engine thread returns
OutputCallback ==
    /\ UNCHANGED outside
    /\ pc # "exited"
    /\ player.output # None
    /\ ~player.output_is_paused
    /\ decoder.buf > 0
    /\ \E data_len \in env.data_len :
           decoder' = [decoder EXCEPT !.buf = @ - Min(@, data_len)]
    /\ UNCHANGED <<env, player, rx, tx, pc, packets_left, received, consumer, sent,
                   changed, nsent, cmds>>

\* the response thread of start_player_response_thread (app.rs:581-595): recv
\* returns the next response, or fails once the engine has dropped the sender and
\* the channel is empty; the thread ends on Exited and on a failed recv
ResponseThread ==
    /\ UNCHANGED outside
    /\ consumer = "running"
    /\ received < Len(tx) \/ pc = "exited"
    /\ IF received < Len(tx)
       THEN /\ received' = received + 1
            /\ consumer' = IF tx[received + 1].type = "Exited" THEN "exited"
                           ELSE "running"
       ELSE /\ received' = received
            /\ consumer' = "exited"
    /\ UNCHANGED <<env, player, decoder, rx, tx, pc, packets_left, sent, changed,
                   nsent, cmds>>

Next == ClientSend \/ ProcessClientCmd \/ RecvTimeout \/ ReadStream \/ OutputCallback

Spec == Init /\ [][Next]_vars

\* the engine together with the response thread, which the scheduler runs
\* whenever it can take a step
InitApp == InitOf(LeavingEnv)
NextApp == Next \/ ResponseThread
SpecApp == InitApp /\ [][NextApp]_vars /\ WF_vars(ResponseThread)

\* the engine playing tracks of different formats
InitFormat == \E i \in 1..Len(FormatEnvs) : InitOf(FormatEnvs[i])
SpecFormat == InitFormat /\ [][Next]_vars

\* the loop of the engine thread (start_thread) goes on: the engine does not stay
\* for ever before a receive or before a read.  This is the weak fairness of
\* ProcessClientCmd, RecvTimeout and ReadStream, which are enabled exactly when pc
\* is "cmd" or "read"
EngineLoops == []<>(pc # "cmd") /\ []<>(pc # "read")

\* the same, with the engine thread looping and the device calling the data
\* callback for as long as the Output plays
SpecFormatLive ==
    InitFormat /\ [][Next]_vars /\ EngineLoops /\ WF_vars(OutputCallback)

\* the engine taking seek commands
InitSeek == \E i \in 1..Len(SeekEnvs) : InitOf(SeekEnvs[i])
SpecSeek == InitSeek /\ [][Next]_vars

\* the engine moved from directory to directory
InitDirs == \E i \in 1..Len(DirEnvs) : InitOf(DirEnvs[i])
SpecDirs == InitDirs /\ [][Next]_vars

\* the engine playing a file without readable tags
InitRaw == \E i \in 1..Len(RawEnvs) : InitOf(RawEnvs[i])
SpecRaw == InitRaw /\ [][Next]_vars

(***************************************************************************)
(* App (app.rs), cut to what scrobbling reads.  The response thread hands  *)
(* every response it receives to App::process_player_response, so the App  *)
(* is what the responses received so far have made of App::new.  submitted *)
(* lists the responses on which a scrobble was submitted to the services.  *)
(***************************************************************************)
POS_CALLBACK_NOW_PLAYING == 0
POS_CALLBACK_SCROBBLE == 1
POS_CALLBACK_HL_END == 2
POS_MIN_DURATION_TO_SCROBBLE == 30

\* now_playing and submitted list the responses on which the calls to the
\* services were made; tray is TrayIcon::image_type
AppNew ==
    [meta |-> TrackMetaDefault, last_seek_position |-> None, submitted |-> << >>,
     now_playing |-> << >>, tray |-> "Stop", playback_state |-> "Stopped"]

\* App::set_playback_state
set_playback_state(app, state) ==
    [app EXCEPT !.tray = CASE state = "Playing" ->
                                 IF @ \in {"Play", "PlayHL"} THEN @ ELSE "Play"
                           [] state = "Stopped" -> "Stop"
                           [] state = "Paused" -> "Pause",
                !.playback_state = state]

\* last_seek_position kept over a NewPlaylistIndex
process_new_playlist_index_keeps_seek(app, resp) ==
    [app EXCEPT !.meta = TrackMetaDefault,
                !.tray = IF ~resp.user_navigation /\ @ = "Play" THEN "PlayHL" ELSE @]

\* process_player_response, the NewPlaylistIndex arm
process_new_playlist_index(app, resp) ==
    [app EXCEPT !.meta = TrackMetaDefault, !.last_seek_position = None,
                !.tray = IF ~resp.user_navigation /\ @ = "Play" THEN "PlayHL" ELSE @]

\* the calls of process_position_callback to the services, for response k, when
\* the track may be submitted and when last_seek_position allows it
submit(app, callback, k, may_submit, not_seeked) ==
    IF ~may_submit THEN app
    ELSE IF callback.id = POS_CALLBACK_NOW_PLAYING
    THEN [app EXCEPT !.now_playing = Append(@, k)]
    ELSE IF callback.id = POS_CALLBACK_SCROBBLE /\ not_seeked
    THEN [app EXCEPT !.submitted = Append(@, k)]
    ELSE app

\* the end of the highlight, at the end of process_position_callback
highlight_end(app, callback) ==
    IF callback.id = POS_CALLBACK_HL_END /\ app.tray = "PlayHL"
    THEN [app EXCEPT !.tray = "Play"]
    ELSE app

\* the scrobble submitted whatever last_seek_position is
process_position_callback_any_seek(app, callback, k) ==
    highlight_end(submit(app, callback, k,
                         /\ app.meta.duration > POS_MIN_DURATION_TO_SCROBBLE
                         /\ app.meta.title # "",
                         TRUE),
                  callback)

\* a track of exactly the minimal duration submitted as well
process_position_callback_from_min(app, callback, k) ==
    highlight_end(submit(app, callback, k,
                         /\ app.meta.duration >= POS_MIN_DURATION_TO_SCROBBLE
                         /\ app.meta.title # "",
                         app.last_seek_position = None
                             \/ app.last_seek_position[1] = 0),
                  callback)

\* process_position_callback for response k: a track with artist and title is one
\* whose tags were read
process_position_callback(app, callback, k) ==
    highlight_end(submit(app, callback, k,
                         /\ app.meta.duration > POS_MIN_DURATION_TO_SCROBBLE
                         /\ app.meta.title # "",
                         app.last_seek_position = None
                             \/ app.last_seek_position[1] = 0),
                  callback)

\* process_player_response for response k
process_player_response(app, resp, k) ==
    CASE resp.type = "NewPlaylistIndex" -> process_new_playlist_index(app, resp)
      [] resp.type = "NewMeta" ->
            set_playback_state([app EXCEPT !.meta = resp.meta], app.playback_state)
      [] resp.type = "PlaybackStateChanged" -> set_playback_state(app, resp.state)
      [] resp.type = "PositionRequested" -> set_playback_state(app, app.playback_state)
      [] resp.type = "Seeked" -> [app EXCEPT !.last_seek_position = Some(resp.position)]
      [] resp.type = "PositionCallback" ->
            process_position_callback(app, resp.callback, k)
      [] OTHER -> app

RECURSIVE app_after(_)
\* the App after the thread has handed it the first k responses
app_after(k) ==
    IF k = 0 THEN AppNew ELSE process_player_response(app_after(k - 1), tx[k], k)

App == app_after(received)

\* the engine with the response thread and the App, while the user seeks
InitScrobble == InitOf(ScrobbleEnv)
SpecScrobble == InitScrobble /\ [][NextApp]_vars

\* the position callbacks of app::start when a scrobbling service is set up
\* (5 s, 5 s and 0.5 s, a second being the length of a packet), and when none is
AppCallbacks ==
    Some(<< from_start(POS_CALLBACK_NOW_PLAYING, 81920),
            from_end(POS_CALLBACK_SCROBBLE, 81920),
            from_start(POS_CALLBACK_HL_END, 8192) >>)

PlaylistHighlight == << File("/a/1.flac"), File("/b/long.flac") >>

HighlightEnvs ==
    << [Env(PlaylistHighlight, Play(Some(0)), Unattended)
            EXCEPT !.position_callbacks = AppCallbacks],
       [Env(PlaylistHighlight, Play(Some(0)), Unattended)
            EXCEPT !.position_callbacks = None] >>

\* the engine, the response thread and the App of app::start, with and without a
\* scrobbling service, all threads running and the user away
InitHighlight == \E i \in 1..Len(HighlightEnvs) : InitOf(HighlightEnvs[i])
NextHighlight ==
    ProcessClientCmd \/ RecvTimeout \/ ReadStream \/ OutputCallback \/ ResponseThread
SpecHighlight ==
    InitHighlight /\ [][NextHighlight]_vars /\ EngineLoops /\ WF_vars(OutputCallback)
                  /\ WF_vars(ResponseThread)

(***************************************************************************)
(* The volume (app.rs:248-270, 533-534), in thousandths.                   *)
(***************************************************************************)
VOL_STEP == 10

MaxRuns == 2

\* AppState::load_or_default on state.json
load_or_default(file) == IF file = None THEN AppStateDefault ELSE file[1]

\* set_vol without the rounding to steps
set_vol_unrounded(a, new_volume) ==
    LET Saved(state) == [a EXCEPT !.state = state, !.file = Some(state)]
    IN  Saved([a.state EXCEPT !.volume = Min(Max(new_volume, 0), 1000)])

\* App::set_vol: clamp, round to whole steps (f32::round, half away from zero),
\* keep in the state and save state.json
set_vol(a, new_volume) ==
    LET Saved(state) == [a EXCEPT !.state = state, !.file = Some(state)]
        steps_count == (Min(Max(new_volume, 0), 1000) + VOL_STEP \div 2) \div VOL_STEP
    IN  Saved([a.state EXCEPT !.volume = steps_count * VOL_STEP])

\* what the media keys may ask for
MediaVolumes == {-50, 4, 505, 994, 1500}

\* the engine of app::start, which is sent the volume of the loaded state first
VolumeEnv(state) ==
    [position_callbacks |-> None, startup |-> << SetVolume(state.volume) >>,
     commands |-> << >>, data_len |-> {32768}]

\* self.player.set_volume(new_volume) at the end of set_vol
SendVolume(a) ==
    /\ nsent < Len(env.startup) + MaxCmds
    /\ pc = "cmd"
    /\ app_state' = a
    /\ rx' = Append(rx, [cmd |-> SetVolume(a.state.volume), seq |-> nsent + 1])
    /\ nsent' = nsent + 1
    /\ UNCHANGED <<env, player, decoder, tx, pc, packets_left, received, consumer,
                   sent, changed, cmds>>
    /\ UNCHANGED <<scrobbler, singleton, cues, threads>>

\* user_action_vol_down and user_action_vol_up
VolumeDown == SendVolume(set_vol(app_state, app_state.state.volume - VOL_STEP))
VolumeUp == SendVolume(set_vol(app_state, app_state.state.volume + VOL_STEP))

\* MediaControlEvent::SetVolume: user_action_set_vol
MediaSetVolume == \E v \in MediaVolumes : SendVolume(set_vol(app_state, v))

\* the program is run again: app::start loads state.json and starts a new engine
Start ==
    /\ app_state.runs < MaxRuns
    /\ app_state' = [state |-> load_or_default(app_state.file),
                     file |-> app_state.file, runs |-> app_state.runs + 1]
    /\ env' = VolumeEnv(load_or_default(app_state.file))
    /\ player' = PlayerNew(None)
    /\ decoder' = DecoderNew
    /\ rx' = Numbered(<< SetVolume(load_or_default(app_state.file).volume) >>, 0)
    /\ tx' = << >>
    /\ pc' = "cmd"
    /\ packets_left' = 0
    /\ received' = 0
    /\ consumer' = "running"
    /\ sent' = << >>
    /\ changed' = FALSE
    /\ nsent' = 1
    /\ cmds' = << >>
    /\ UNCHANGED <<scrobbler, singleton, cues, threads>>

\* state.json as the first run finds it: missing, written by set_vol, or holding
\* any other number
StateFiles ==
    << None, Some([playlist_index |-> None, volume |-> 1000]),
       Some([playlist_index |-> Some(0), volume |-> 510]),
       Some([playlist_index |-> None, volume |-> 333]),
       Some([playlist_index |-> None, volume |-> 1700]) >>

InitVolume ==
    \E i \in 1..Len(StateFiles) :
        /\ EngineOn(VolumeEnv(load_or_default(StateFiles[i])))
        /\ scrobbler = ScrobblerNew(Services[1])
        /\ singleton = SingletonNew
        /\ cues = None
        /\ threads = ThreadsNew
        /\ app_state = [state |-> load_or_default(StateFiles[i]),
                        file |-> StateFiles[i], runs |-> 1]
NextVolume ==
    \/ VolumeDown \/ VolumeUp \/ MediaSetVolume \/ Start
    \/ ProcessClientCmd \/ RecvTimeout \/ ReadStream
SpecVolume == InitVolume /\ [][NextVolume]_vars

\* the responses the App is handed when the engine is taken as given: the durations
\* are whole seconds around the minimal duration
MaxResponses == 4

PlayerResponses ==
    << [type |-> "NewPlaylistIndex", playlist_index |-> 0, track |-> File("/a/1.flac"),
        user_navigation |-> FALSE],
       [type |-> "NewMeta", user_navigation |-> FALSE,
        meta |-> [title |-> "t", track |-> None,
                  duration |-> POS_MIN_DURATION_TO_SCROBBLE - 1]],
       [type |-> "NewMeta", user_navigation |-> FALSE,
        meta |-> [title |-> "t", track |-> None,
                  duration |-> POS_MIN_DURATION_TO_SCROBBLE]],
       [type |-> "NewMeta", user_navigation |-> FALSE,
        meta |-> [title |-> "t", track |-> None,
                  duration |-> POS_MIN_DURATION_TO_SCROBBLE + 1]],
       [type |-> "NewMeta", user_navigation |-> FALSE,
        meta |-> [title |-> "", track |-> None,
                  duration |-> POS_MIN_DURATION_TO_SCROBBLE + 1]],
       [type |-> "PositionCallback", callback |-> from_start(POS_CALLBACK_NOW_PLAYING, 5)],
       [type |-> "PositionCallback", callback |-> from_end(POS_CALLBACK_SCROBBLE, 5)],
       [type |-> "Seeked", position |-> 5] >>

\* the engine sends a response: any of PlayerResponses, in any order
AnyResponse ==
    /\ UNCHANGED outside
    /\ pc = "app"
    /\ Len(tx) < MaxResponses
    /\ \E i \in 1..Len(env.responses) : tx' = Append(tx, env.responses[i])
    /\ UNCHANGED <<env, player, decoder, rx, pc, packets_left, received, consumer, sent,
                   changed, nsent, cmds>>

\* the response thread and the App alone, on any sequence of responses
\* the engine not started: only the channel of responses is there
EngineOff(e) ==
    /\ env = e
    /\ player = PlayerNew(None)
    /\ decoder = DecoderNew
    /\ rx = << >>
    /\ tx = << >>
    /\ pc = "app"
    /\ packets_left = 0
    /\ received = 0
    /\ consumer = "running"
    /\ sent = << >>
    /\ changed = FALSE
    /\ nsent = 0
    /\ cmds = << >>

InitResponses == EngineOff([responses |-> PlayerResponses]) /\ OutsideIdle

NextResponses == AnyResponse \/ ResponseThread
SpecResponses == InitResponses /\ [][NextResponses]_vars

(***************************************************************************)
(* The Decoder on its own: its public methods called in any order, with    *)
(* the device draining the buffer.                                         *)
(***************************************************************************)
DecoderTracks ==
    << File("/a/1.flac"), File("/b/long.flac"), File("/b/bad.flac"),
       Cue("/c/x.cue", 1), Cue("/c/x.cue", 2), Cue("/c/x.cue", 3),
       Cue("/c/z.cue", 1), Cue("/c/z.cue", 2) >>

DecoderOnly ==
    UNCHANGED <<env, player, rx, tx, pc, packets_left, received, consumer, sent,
                changed, nsent, cmds, outside>>

\* Decoder::play
DecoderPlay ==
    /\ \E i \in 1..Len(DecoderTracks) :
           decoder' = decoder_play(decoder, DecoderTracks[i]).d
    /\ DecoderOnly

\* Decoder::read_stream
DecoderRead ==
    /\ decoder' = decoder_read_stream(decoder).d
    /\ DecoderOnly

\* the data callback of the output stream
DecoderDrain ==
    /\ decoder.buf > 0
    /\ decoder' = [decoder EXCEPT !.buf = @ - Min(@, 32768)]
    /\ DecoderOnly

\* Decoder::stop
DecoderStopped ==
    /\ decoder' = DecoderStop(decoder)
    /\ DecoderOnly

InitDecoder == EngineOff([responses |-> << >>]) /\ OutsideIdle
NextDecoder == DecoderPlay \/ DecoderRead \/ DecoderDrain \/ DecoderStopped
SpecDecoder == InitDecoder /\ [][NextDecoder]_vars

(***************************************************************************)
(* The engine under commands that change the playlist and name any index   *)
(* (player.rs:191-246, 495-518): playlists that get longer, shorter and    *)
(* empty, indexes inside and outside the playlist, and navigation over a   *)
(* playlist whose first, middle and last tracks do not open.               *)
(***************************************************************************)
IndexCommands ==
   << SetPlaylist(PlaylistShort, None), SetPlaylist(<< >>, None),
      SetPlaylist(PlaylistBad, None), Play(Some(4)), Play(Some(5)), Play(None),
      LoadMeta(2), LoadMeta(7), Cmd("Next"), Cmd("Prev"), Cmd("NextDir"),
      Cmd("PrevDir") >>

IndexEnvs ==
   << Env(PlaylistBad, Play(Some(3)), IndexCommands),
      Env(PlaylistShort, LoadMeta(1), IndexCommands) >>

InitIndex == \E i \in 1..Len(IndexEnvs) : InitOf(IndexEnvs[i])

SpecIndex == InitIndex /\ [][Next]_vars

(***************************************************************************)
(* move_and_play pass by pass (player.rs:317-394).  Here threads holds the *)
(* place of the engine thread inside move_and_play: frame, the arguments   *)
(* and local variables of the call under way, and attempts, the number of  *)
(* calls of play made by the call under way or, after it, by the last one. *)
(***************************************************************************)
MoveNew == [frame |-> None, attempts |-> 0]

PlaylistAllBad == << File("/b/bad.flac"), File("/c/bad.flac"), File("/b/bad.flac") >>

\* the calls the engine makes: next for the Next command, for a Play that has
\* failed and for the end of a track, prev, next_dir, prev_dir
MoveCalls ==
    { [step |-> "Next", wrap |-> TRUE, user_navigation |-> TRUE],
      [step |-> "Next", wrap |-> FALSE, user_navigation |-> TRUE],
      [step |-> "Next", wrap |-> FALSE, user_navigation |-> FALSE],
      [step |-> "Prev", wrap |-> TRUE, user_navigation |-> TRUE],
      [step |-> "NextDir", wrap |-> TRUE, user_navigation |-> TRUE],
      [step |-> "PrevDir", wrap |-> TRUE, user_navigation |-> TRUE] }

Applied(w) ==
    /\ player' = w.p
    /\ decoder' = w.d
    /\ tx' = w.tx
    /\ sent' = w.sent
    /\ changed' = w.changed

\* a navigation command is received: stop, then move_and_play is entered; with an
\* empty playlist it returns at once
MoveCall ==
    /\ pc = "cmd"
    /\ rx = << >>
    /\ nsent < Len(env.startup) + MaxCmds
    /\ \E call \in MoveCalls :
           /\ Applied(stop(World))
           /\ cmds' = Append(cmds, [cmd |-> Cmd(call.step), seq |-> nsent + 1])
           /\ IF player.playlist = << >>
              THEN /\ threads' = MoveNew
                   /\ pc' = "read"
              ELSE /\ threads' = [frame |-> Some([call |-> call,
                                                  m |-> move_and_play_enter(World)]),
                                  attempts |-> 0]
                   /\ pc' = "move"
    /\ nsent' = nsent + 1
    /\ packets_left' = READ_PACKETS_PER_CYCLE
    /\ UNCHANGED <<env, rx, received, consumer, scrobbler, singleton, app_state, cues>>

\* one pass of the loop
MovePass ==
    /\ pc = "move"
    /\ threads.attempts <= Len(player.playlist)
    /\ LET Passed(s) ==
               /\ Applied(s.w)
               /\ threads' = [frame |-> IF s.returned THEN None
                                        ELSE Some([threads.frame[1] EXCEPT !.m = s.m]),
                              attempts |-> threads.attempts + IF s.played THEN 1 ELSE 0]
               /\ pc' = IF s.returned THEN "read" ELSE "move"
       IN  Passed(move_and_play_step(World, threads.frame[1].call.step,
                                     threads.frame[1].call.wrap,
                                     threads.frame[1].call.user_navigation,
                                     threads.frame[1].m))
    /\ UNCHANGED <<env, rx, packets_left, received, consumer, nsent, cmds, scrobbler,
                   singleton, app_state, cues>>

MoveEnvs ==
    [i \in 1..Len(PlaylistAllBad) |-> Env(PlaylistAllBad, Play(Some(i - 1)), Unattended)]
    \o [i \in 1..Len(PlaylistBad) |-> Env(PlaylistBad, Play(Some(i - 1)), Unattended)]
    \o << Env(PlaylistDirs, Play(Some(0)), Unattended),
          Env(<< >>, Play(None), Unattended) >>

InitMove ==
    /\ \E i \in 1..Len(MoveEnvs) : EngineOn(MoveEnvs[i])
    /\ scrobbler = ScrobblerNew(Services[1])
    /\ singleton = SingletonNew
    /\ app_state = AppStateFirst
    /\ cues = None
    /\ threads = MoveNew

NextMove ==
    \/ MoveCall \/ MovePass
    \/ ProcessClientCmd \/ RecvTimeout \/ ReadStream \/ OutputCallback

\* the engine thread goes on inside move_and_play: it does not stay for ever
\* before a pass of the loop.  This is the weak fairness of MovePass, which is
\* enabled exactly when pc is "move" and which adds to attempts whenever it leaves
\* pc at "move"
MoveGoesOn ==
    \A k \in 0..Len(PlaylistBad) :
        []<>(~(pc = "move" /\ threads.attempts = k /\ k <= Len(player.playlist)))

SpecMove == InitMove /\ [][NextMove]_vars /\ MoveGoesOn

(***************************************************************************)
(* The App as the controller of the engine (app.rs:140-219, 436-447): the  *)
(* user actions send a command and set playback_state at once, the         *)
(* response thread sets it from the responses.  Both run with the App      *)
(* mutex held, so each is one step.  Here app_state carries the App.       *)
(***************************************************************************)
ControllerNew == [state |-> AppStateDefault, file |-> None, runs |-> 1, app |-> AppNew]

Sends(app, cmd) == [app |-> app, cmd |-> cmd]

user_action_play(app) ==
    CASE app.playback_state = "Paused" ->
             Sends(set_playback_state(app, "Playing"), Some(Cmd("UnPause")))
      [] app.playback_state = "Stopped" ->
             Sends(set_playback_state(app, "Playing"), Some(Play(None)))
      [] OTHER -> Sends(app, None)

user_action_pause(app) ==
    IF app.playback_state = "Playing"
    THEN Sends(set_playback_state(app, "Paused"), Some(Cmd("Pause")))
    ELSE Sends(app, None)

user_action_toggle_pause(app) ==
    CASE app.playback_state = "Stopped" ->
             Sends(set_playback_state(app, "Playing"), Some(Play(None)))
      [] app.playback_state = "Playing" ->
             Sends(set_playback_state(app, "Paused"), Some(Cmd("Pause")))
      [] OTHER -> Sends(set_playback_state(app, "Playing"), Some(Cmd("UnPause")))

user_action_stop(app) == Sends(set_playback_state(app, "Stopped"), Some(Cmd("Stop")))

user_action_toggle_stop(app) ==
    CASE app.playback_state = "Stopped" ->
             Sends(set_playback_state(app, "Playing"), Some(Play(None)))
      [] app.playback_state = "Playing" ->
             Sends(set_playback_state(app, "Stopped"), Some(Cmd("Stop")))
      [] OTHER -> Sends(set_playback_state(app, "Playing"), Some(Cmd("UnPause")))

user_action(app, action) ==
    CASE action = "Play" -> user_action_play(app)
      [] action = "Pause" -> user_action_pause(app)
      [] action = "TogglePause" -> user_action_toggle_pause(app)
      [] action = "Stop" -> user_action_stop(app)
      [] OTHER -> user_action_toggle_stop(app)

UserActions == {"Play", "Pause", "TogglePause", "Stop", "ToggleStop"}

\* a hotkey, a tray menu item or a media key, with the App mutex held
UserAction ==
    /\ pc = "cmd"
    /\ nsent < Len(env.startup) + MaxCmds
    /\ \E action \in UserActions :
           /\ user_action(app_state.app, action).cmd # None
           /\ app_state' = [app_state EXCEPT !.app = user_action(@, action).app]
           /\ rx' = Append(rx, [cmd |-> user_action(app_state.app, action).cmd[1],
                                seq |-> nsent + 1])
    /\ nsent' = nsent + 1
    /\ UNCHANGED <<env, player, decoder, tx, pc, packets_left, received, consumer,
                   sent, changed, cmds, scrobbler, singleton, cues, threads>>

\* the response thread: recv, app.lock(), process_player_response
ResponseHandled ==
    /\ consumer = "running"
    /\ received < Len(tx)
    /\ received' = received + 1
    /\ app_state' = [app_state EXCEPT
           !.app = process_player_response(@, tx[received + 1], received + 1)]
    /\ UNCHANGED <<env, player, decoder, rx, tx, pc, packets_left, consumer, sent,
                   changed, nsent, cmds, scrobbler, singleton, cues, threads>>

ControlEnvs ==
   << Env(PlaylistShort, Play(Some(0)), Unattended),
      Env(PlaylistShort, LoadMeta(0), Unattended) >>

InitControl ==
    /\ \E i \in 1..Len(ControlEnvs) : EngineOn(ControlEnvs[i])
    /\ scrobbler = ScrobblerNew(Services[1])
    /\ singleton = SingletonNew
    /\ app_state = ControllerNew
    /\ cues = None
    /\ threads = ThreadsNew

NextControl ==
    \/ UserAction \/ ResponseHandled
    \/ ProcessClientCmd \/ RecvTimeout \/ ReadStream \/ OutputCallback

SpecControl == InitControl /\ [][NextControl]_vars

(***************************************************************************)
(* The ring buffer between the engine and the device (decoder.rs:337-352,  *)
(* 380-458), sample by sample.  Here decoder holds the VecDeque (its items *)
(* and the place of its head in the ring), the volume, the number of       *)
(* samples written and played, and the block last handed to the device.    *)
(***************************************************************************)
RingLen == 4
MaxWritten == 6
MaxPacket == 2
MaxData == 3

\* T::MID, the sample of silence
MID == 0

\* the n-th sample a stream decodes
sample(n) == 2 * n

OutputVolumes == {0, 500, 1000}

OutputNew ==
    [buf |-> [items |-> << >>, head |-> 0], volume |-> 1000, written |-> 0,
     played |-> 0, data |-> << >>]

\* VecDeque::as_slices: the items up to the end of the ring, and those after it
as_slices(buf) ==
    <<SubSeq(buf.items, 1, Min(Len(buf.items), RingLen - buf.head)),
      SubSeq(buf.items, Min(Len(buf.items), RingLen - buf.head) + 1, Len(buf.items))>>

\* VecDeque::drain(0..len)
drain(buf, len) ==
    [items |-> SubSeq(buf.items, len + 1, Len(buf.items)),
     head |-> (buf.head + len) % RingLen]

\* VecDeque::push_back of every sample of a packet (stream.write)
write(buf, samples) == [buf EXCEPT !.items = @ \o samples]

with_volume(src_sample, volume) ==
    IF volume = 1000 THEN src_sample
    ELSE IF volume = 0 THEN MID
    ELSE (src_sample * volume) \div 1000

copy_with_volume(src, volume) ==
    [i \in 1..Len(src) |-> with_volume(src[i], volume)]

\* the data callback of the output stream, for a block of data_len samples
output_callback_first_slice(buf, volume, data_len) ==
    LET s1 == as_slices(buf)[1]
        len1 == Min(Len(s1), data_len)
    IN  [data |-> copy_with_volume(SubSeq(s1, 1, len1), volume)
                  \o [i \in 1..(data_len - len1) |-> MID],
         buf |-> drain(buf, len1)]

output_callback(buf, volume, data_len) ==
    LET s1 == as_slices(buf)[1]
        s2 == as_slices(buf)[2]
        len1 == Min(Len(s1), data_len)
        len == IF len1 < data_len THEN Min(len1 + Len(s2), data_len) ELSE len1
    IN  [data |-> copy_with_volume(SubSeq(s1, 1, len1), volume)
                  \o copy_with_volume(SubSeq(s2, 1, len - len1), volume)
                  \o [i \in 1..(data_len - len) |-> MID],
         buf |-> drain(buf, len)]

OutputOnly ==
    UNCHANGED <<env, player, rx, tx, pc, packets_left, received, consumer, sent,
                changed, nsent, cmds, outside>>

\* the engine appends a packet, under the lock of the buffer
OutputWrite ==
    /\ \E n \in 1..MaxPacket :
           /\ Len(decoder.buf.items) + n <= RingLen
           /\ decoder.written + n <= MaxWritten
           /\ decoder' = [decoder EXCEPT
                  !.buf = write(@, [i \in 1..n |-> sample(decoder.written + i)]),
                  !.written = @ + n]
    /\ OutputOnly

\* the device asks for a block, under the lock of the buffer
OutputData ==
    /\ \E data_len \in 1..MaxData :
           decoder' = [decoder EXCEPT
               !.buf = output_callback(decoder.buf, decoder.volume, data_len).buf,
               !.data = output_callback(decoder.buf, decoder.volume, data_len).data,
               !.played = @ + Len(decoder.buf.items)
                            - Len(output_callback(decoder.buf, decoder.volume, data_len).buf.items)]
    /\ OutputOnly

\* Decoder::set_volume
OutputSetVolume ==
    /\ \E v \in OutputVolumes \ {decoder.volume} :
           decoder' = [decoder EXCEPT !.volume = set_volume(v)]
    /\ OutputOnly

InitOutput ==
    /\ env = [responses |-> << >>]
    /\ player = PlayerNew(None)
    /\ decoder = OutputNew
    /\ rx = << >> /\ tx = << >> /\ pc = "app" /\ packets_left = 0
    /\ received = 0 /\ consumer = "running" /\ sent = << >>
    /\ changed = FALSE /\ nsent = 0 /\ cmds = << >>
    /\ OutsideIdle

NextOutput == OutputWrite \/ OutputData \/ OutputSetVolume

SpecOutput == InitOutput /\ [][NextOutput]_vars

(***************************************************************************)
(* LastFM and its API thread, step by step (lastfm.rs:138-285): the        *)
(* not_scrobbled mutex, the join in wait_for_api_thread, and the worker    *)
(* that takes the mutex after its HTTP call.  items is the length of the   *)
(* queue and batch the number of listens the worker was given.             *)
(***************************************************************************)
MaxSubmits == 4

LastFMNew ==
    [items |-> 0, mutex |-> "", caller |-> "idle", api_thread |-> FALSE,
     worker |-> "none", batch |-> 0, calls |-> 0]

\* wait_for_api_thread returns: there is no handle, or the thread has ended
joined(s) == ~s.api_thread \/ s.worker = "done"

\* LastFM::playing_now up to wait_for_api_thread
PlayingNow ==
    /\ scrobbler.caller = "idle"
    /\ scrobbler.calls < MaxSubmits
    /\ scrobbler' = [scrobbler EXCEPT !.caller = "now_playing", !.calls = @ + 1]
    /\ UNCHANGED <<engine, singleton, app_state, cues, threads>>

\* playing_now after the join; the handle of its own thread is not kept
PlayingNowJoined ==
    /\ scrobbler.caller = "now_playing"
    /\ joined(scrobbler)
    /\ scrobbler' = [scrobbler EXCEPT !.caller = "idle", !.api_thread = FALSE,
                                      !.worker = "none"]
    /\ UNCHANGED <<engine, singleton, app_state, cues, threads>>

\* LastFM::scrobble up to wait_for_api_thread: the guard of not_scrobbled lives to
\* the end of the function
ScrobbleLocks ==
    /\ scrobbler.caller = "idle"
    /\ scrobbler.calls < MaxSubmits
    /\ scrobbler.mutex = ""
    /\ scrobbler' = [scrobbler EXCEPT !.caller = "scrobble", !.mutex = "caller",
                                      !.items = @ + 1, !.calls = @ + 1]
    /\ UNCHANGED <<engine, singleton, app_state, cues, threads>>

\* scrobble after the join: the new thread is started and the guard is dropped
ScrobbleJoined ==
    /\ scrobbler.caller = "scrobble"
    /\ joined(scrobbler)
    /\ scrobbler' = [scrobbler EXCEPT !.caller = "idle", !.mutex = "",
                                      !.api_thread = TRUE, !.worker = "api_call",
                                      !.batch = Min(scrobbler.items, MAX_SCROBBLES)]
    /\ UNCHANGED <<engine, singleton, app_state, cues, threads>>

\* the worker: api_call answers, Ok or Err
WorkerApiCall ==
    /\ scrobbler.worker = "api_call"
    /\ \E ok \in BOOLEAN :
           scrobbler' = [scrobbler EXCEPT !.worker = IF ok THEN "retain" ELSE "save"]
    /\ UNCHANGED <<engine, singleton, app_state, cues, threads>>

\* the worker: items_arc.lock(), retain
WorkerRetain ==
    /\ scrobbler.worker = "retain"
    /\ scrobbler.mutex = ""
    /\ scrobbler' = [scrobbler EXCEPT !.worker = "save", !.items = @ - scrobbler.batch]
    /\ UNCHANGED <<engine, singleton, app_state, cues, threads>>

\* the worker: items_arc.lock(), save, and the thread ends
WorkerSave ==
    /\ scrobbler.worker = "save"
    /\ scrobbler.mutex = ""
    /\ scrobbler' = [scrobbler EXCEPT !.worker = "done"]
    /\ UNCHANGED <<engine, singleton, app_state, cues, threads>>

InitWorker ==
    /\ EngineOff([responses |-> << >>])
    /\ scrobbler = LastFMNew
    /\ singleton = SingletonNew
    /\ AppIdle

NextWorker ==
    \/ PlayingNow \/ PlayingNowJoined \/ ScrobbleLocks \/ ScrobbleJoined
    \/ WorkerApiCall \/ WorkerRetain \/ WorkerSave

\* the caller and the worker go on whenever they can
SpecWorker ==
    /\ InitWorker /\ [][NextWorker]_vars
    /\ WF_vars(PlayingNowJoined) /\ WF_vars(ScrobbleJoined) /\ WF_vars(WorkerApiCall)
    /\ WF_vars(WorkerRetain) /\ WF_vars(WorkerSave)

(***************************************************************************)
(* The shutdown (app.rs:503-516, 561-595; hotkeys.rs:61-101).  The engine  *)
(* runs as before; the response thread, the hotkey thread, the tray menu   *)
(* and the main thread take the App mutex.  A critical section that does   *)
(* not wait for another thread is one step; AppHandle::wait keeps the      *)
(* mutex while it joins the hotkey thread.                                 *)
(***************************************************************************)
MaxEvents == 2
MaxQuits == 2

\* the actions of process_hotkey, by whether they send a command to the engine
HotKeyActions == << "Next", "SysVolUp" >>

ShutdownEnv ==
    [position_callbacks |-> None, startup |-> << >>, commands |-> << >>,
     data_len |-> {32768}]

\* PlayerTx::send: Sender::send fails once the engine thread has returned and
\* dropped the Receiver, and the unwrap panics
send_panics == pc = "exited"

\* the response thread: recv, then process_player_response under the mutex
ResponseLocked ==
    /\ consumer = "running"
    /\ received < Len(tx) \/ pc = "exited"
    /\ IF received < Len(tx)
       THEN /\ threads.mutex = ""
            /\ received' = received + 1
            /\ consumer' = IF threads.poisoned THEN "panicked"
                           ELSE IF tx[received + 1].type = "Exited" THEN "exited"
                           ELSE "running"
       ELSE /\ received' = received
            /\ consumer' = "exited"
    /\ UNCHANGED <<env, player, decoder, rx, tx, pc, packets_left, sent, changed,
                   nsent, cmds, outside>>

\* the hotkey thread: while !*stop_flag.lock().unwrap()
HotkeysCheck ==
    /\ threads.hotkeys = "check"
    /\ threads' = [threads EXCEPT !.hotkeys = IF threads.stop_flag THEN "done"
                                              ELSE "recv"]
    /\ UNCHANGED <<engine, scrobbler, singleton, app_state, cues>>

\* recv_timeout returns a key press
HotkeysEvent ==
    /\ threads.hotkeys = "recv"
    /\ threads.events < MaxEvents
    /\ \E i \in 1..Len(HotKeyActions) :
           threads' = [threads EXCEPT !.hotkeys = "lock", !.action = HotKeyActions[i],
                                      !.events = @ + 1]
    /\ UNCHANGED <<engine, scrobbler, singleton, app_state, cues>>

\* recv_timeout times out
HotkeysTimeout ==
    /\ threads.hotkeys = "recv"
    /\ threads' = [threads EXCEPT !.hotkeys = "check"]
    /\ UNCHANGED <<engine, scrobbler, singleton, app_state, cues>>

\* action_func: lock the App, process_hotkey
HotkeysAction ==
    /\ threads.hotkeys = "lock"
    /\ threads.mutex = ""
    /\ IF threads.poisoned
       THEN /\ threads' = [threads EXCEPT !.hotkeys = "panicked"]
            /\ UNCHANGED <<rx, nsent>>
       ELSE IF threads.action = "Next"
       THEN IF send_panics
            THEN /\ threads' = [threads EXCEPT !.hotkeys = "panicked",
                                               !.poisoned = TRUE]
                 /\ UNCHANGED <<rx, nsent>>
            ELSE /\ threads' = [threads EXCEPT !.hotkeys = "check"]
                 /\ rx' = Append(rx, [cmd |-> Cmd("Next"), seq |-> nsent + 1])
                 /\ nsent' = nsent + 1
       ELSE /\ threads' = [threads EXCEPT !.hotkeys = "check"]
            /\ UNCHANGED <<rx, nsent>>
    /\ UNCHANGED <<env, player, decoder, tx, pc, packets_left, received, consumer,
                   sent, changed, cmds, scrobbler, singleton, app_state, cues>>

\* the Exit item of the tray menu, or the quit signal: user_action_quit under the
\* mutex
QuitRequest ==
    /\ threads.quits < MaxQuits
    /\ threads.main \notin {"returned", "panicked"}
    /\ threads.mutex = ""
    /\ ~threads.poisoned
    /\ IF send_panics
       THEN /\ threads' = [threads EXCEPT !.quits = @ + 1, !.poisoned = TRUE]
            /\ UNCHANGED <<rx, nsent>>
       ELSE /\ threads' = [threads EXCEPT !.quits = @ + 1]
            /\ rx' = Append(rx, [cmd |-> Cmd("Exit"), seq |-> nsent + 1])
            /\ nsent' = nsent + 1
    /\ UNCHANGED <<env, player, decoder, tx, pc, packets_left, received, consumer,
                   sent, changed, cmds, scrobbler, singleton, app_state, cues>>

\* AppHandle::wait: self.player_thread.join().unwrap()
MainJoinPlayer ==
    /\ threads.main = "join_player"
    /\ consumer # "running"
    /\ threads' = [threads EXCEPT !.main = IF consumer = "panicked" THEN "panicked"
                                           ELSE "lock"]
    /\ UNCHANGED <<engine, scrobbler, singleton, app_state, cues>>

\* AppHandle::wait: self.app.lock().unwrap(), then the first line of HotKeys::stop
MainLock ==
    /\ threads.main = "lock"
    /\ threads.mutex = ""
    /\ threads' = IF threads.poisoned THEN [threads EXCEPT !.main = "panicked"]
                  ELSE [threads EXCEPT !.mutex = "main", !.stop_flag = TRUE,
                                       !.main = "join_hotkeys"]
    /\ UNCHANGED <<engine, scrobbler, singleton, app_state, cues>>

\* HotKeys::stop: t.join().unwrap(); then the rest of wait, and the guard is dropped
MainJoinHotkeys ==
    /\ threads.main = "join_hotkeys"
    /\ threads.hotkeys \in {"done", "panicked"}
    /\ threads' = IF threads.hotkeys = "panicked"
                  THEN [threads EXCEPT !.main = "panicked", !.mutex = "",
                                       !.poisoned = TRUE]
                  ELSE [threads EXCEPT !.main = "returned", !.mutex = ""]
    /\ UNCHANGED <<engine, scrobbler, singleton, app_state, cues>>

InitShutdown ==
    /\ EngineOn(ShutdownEnv)
    /\ scrobbler = ScrobblerNew(Services[1])
    /\ singleton = SingletonNew
    /\ app_state = AppStateFirst
    /\ cues = None
    /\ threads = ThreadsNew

NextShutdown ==
    \/ ProcessClientCmd \/ RecvTimeout \/ ReadStream \/ ResponseLocked
    \/ HotkeysCheck \/ HotkeysEvent \/ HotkeysTimeout \/ HotkeysAction
    \/ QuitRequest \/ MainJoinPlayer \/ MainLock \/ MainJoinHotkeys

\* every thread that can take a step takes one in the end
SpecShutdown ==
    /\ InitShutdown /\ [][NextShutdown]_vars /\ EngineLoops
    /\ WF_vars(ResponseLocked) /\ WF_vars(HotkeysCheck) /\ WF_vars(HotkeysTimeout)
    /\ WF_vars(HotkeysAction) /\ WF_vars(MainJoinPlayer) /\ WF_vars(MainLock)
    /\ WF_vars(MainJoinHotkeys)

\* the App scrobbles a track: the call of a service on the scrobble callback
Scrobble ==
    /\ UNCHANGED <<singleton, app_state, threads, cues>>
    /\ scrobbler.clock < MaxListens
    /\ \E ok \in BOOLEAN : scrobbler' = scrobble(scrobbler, ok)
    /\ UNCHANGED engine

\* the API thread ends, the call having succeeded or failed
ApiThread ==
    /\ UNCHANGED <<singleton, app_state, threads, cues>>
    /\ scrobbler.api_thread # None
    /\ \E ok \in BOOLEAN : scrobbler' = api_thread_run(scrobbler, ok)
    /\ UNCHANGED engine

\* a service alone, scrobbling one track after the other
InitListens ==
    /\ EngineOff([responses |-> << >>])
    /\ \E i \in 1..Len(Services) : scrobbler = ScrobblerNew(Services[i])
    /\ singleton = SingletonNew
    /\ AppIdle

NextListens == Scrobble \/ ApiThread
SpecListens == InitListens /\ [][NextListens]_vars

\* App::play_paths in a process whose working directory is cwd: the commands sent
play_paths(paths, cwd) ==
    LET Sent(c) ==
            IF c.tracks = << >> THEN << >>
            ELSE << Cmd("Stop"), SetPlaylist(c.tracks, Some(c.cue_factory)),
                    Play(Some(0)) >>
    IN  Sent(collect_tracks(paths, cwd))

\* App::new_args: the paths of the payload are given to play_paths as they are
new_args(payload, cwd) == play_paths(payload.cli_args, cwd)

\* payloads of other invocations: cli_args are the paths, current_dir the
\* working directory of the sender
Payload(paths, dir) == [cli_args |-> paths, current_dir |-> dir]

Payloads ==
    << Payload(<< "1.flac" >>, "/b"), Payload(<< "." >>, "/b"),
       Payload(<< "/a/1.flac", "x.cue" >>, "/c"), Payload(<< "none.flac" >>, "/b") >>

\* the running instance, started in /a on a playlist, and one invocation more
ArgsEnv(payload) ==
    [position_callbacks |-> Callbacks,
     startup |-> << SetPlaylist(PlaylistDirs, None), LoadMeta(0) >>,
     commands |-> << Cmd("Next") >>, data_len |-> {32768},
     current_dir |-> "/a", payloads |-> << payload >>]

\* the thread of Singleton::listen in the running instance: process_connection,
\* then on_data, which is App::new_args under the lock of the App
NewArgs ==
    /\ pc = "cmd"
    /\ singleton.socket # 0
    /\ singleton.inbox # << >>
    /\ singleton' = process_connection(singleton)
    /\ rx' = rx \o Numbered(new_args(Head(singleton.inbox), env.current_dir), nsent)
    /\ nsent' = nsent + Len(new_args(Head(singleton.inbox), env.current_dir))
    /\ UNCHANGED <<env, player, decoder, tx, pc, packets_left, received, consumer, sent,
                   changed, cmds, scrobbler, app_state, threads, cues>>

InitArgs ==
    \E i \in 1..Len(Payloads) :
        /\ EngineOn(ArgsEnv(Payloads[i]))
        /\ scrobbler = ScrobblerNew(Services[1])
        /\ AppIdle
        /\ singleton = [SingletonNew EXCEPT !.pc[1] = "listening", !.socket = 1,
                                           !.inbox = << Payloads[i] >>]

NextArgs == Next \/ NewArgs
SpecArgs == InitArgs /\ [][NextArgs]_vars

\* paths as they are given on the command line, one or two of them, in a process
\* whose working directory is /a or /c
PathArgs ==
    << "/c", "/d", "/a", "/c/x.cue", "/c/x.flac", "/c/bad.cue", "/c/z.cue",
       "/a/1.flac", "x.cue", "/c/cover.jpg" >>

\* playlist_man::collect_tracks on the paths
CollectTracks ==
    /\ cues.found = None
    /\ cues' = [cues EXCEPT !.found = Some(collect_tracks(cues.paths, cues.cwd))]
    /\ UNCHANGED <<engine, scrobbler, singleton, app_state, threads>>

InitCollect ==
    /\ EngineOff([responses |-> << >>])
    /\ scrobbler = ScrobblerNew(Services[1])
    /\ singleton = SingletonNew
    /\ app_state = AppStateFirst
    /\ threads = ThreadsNew
    /\ \E i \in 1..Len(PathArgs), j \in 0..Len(PathArgs), dir \in {"/a", "/c"} :
           cues = [paths |-> IF j = 0 THEN << PathArgs[i] >>
                             ELSE << PathArgs[i], PathArgs[j] >>,
                   cwd |-> dir, found |-> None]

SpecCollect == InitCollect /\ [][CollectTracks]_vars

\* positions looked up in a sheet: around the start of each track, and far ends
MaxLookups == 2

Sheets == << "/c/x.cue", "/d/y.cue", "/c/z.cue", "/e/w.cue" >>

LookupPositions(cue) ==
    {0, 65536} \cup
    UNION {{SatSub(CueTracks(cue)[i].start, 1), CueTracks(cue)[i].start,
            CueTracks(cue)[i].start + 1} : i \in 1..Len(CueTracks(cue))}

\* one call of track_index_by_position on the sheet; lookups is a ghost
Lookup ==
    /\ Len(cues.lookups) < MaxLookups
    /\ \E p \in LookupPositions(cues.sheet) :
           cues' = [cues EXCEPT !.lookups =
                        Append(@, [position |-> p,
                                   index |-> track_index_by_position(cues.sheet, p)])]
    /\ UNCHANGED <<engine, scrobbler, singleton, app_state, threads>>

InitLookup ==
    /\ EngineOff([responses |-> << >>])
    /\ scrobbler = ScrobblerNew(Services[1])
    /\ singleton = SingletonNew
    /\ app_state = AppStateFirst
    /\ threads = ThreadsNew
    /\ \E i \in 1..Len(Sheets) : cues = [sheet |-> Sheets[i], lookups |-> << >>]

SpecLookup == InitLookup /\ [][Lookup]_vars

\* a CueFactory on its own: get_or_new and clear in any order.  calls is a ghost,
\* the calls made and what they returned
MaxCalls == 3

FactoryPaths == << "/c/x.cue", "/c/z.cue", "/c/bad.cue", "/c/cover.jpg", "/c/none.cue" >>

GetOrNew ==
    /\ Len(cues.calls) < MaxCalls
    /\ \E i \in 1..Len(FactoryPaths) :
           LET Returned(r) ==
                   [sheets |-> r.sheets,
                    calls |-> Append(cues.calls,
                                     [filename |-> FactoryPaths[i], ok |-> r.ok,
                                      sheet |-> r.sheet, parsed |-> r.parsed,
                                      clear |-> FALSE])]
           IN  cues' = Returned(get_or_new(cues.sheets, FactoryPaths[i]))
    /\ UNCHANGED <<engine, scrobbler, singleton, app_state, threads>>

\* CueFactory::clear
Clear ==
    /\ Len(cues.calls) < MaxCalls
    /\ cues' = [sheets |-> {},
                calls |-> Append(cues.calls,
                                 [filename |-> "", ok |-> TRUE, sheet |-> None,
                                  parsed |-> FALSE, clear |-> TRUE])]
    /\ UNCHANGED <<engine, scrobbler, singleton, app_state, threads>>

InitFactory ==
    /\ EngineOff([responses |-> << >>])
    /\ scrobbler = ScrobblerNew(Services[1])
    /\ singleton = SingletonNew
    /\ app_state = AppStateFirst
    /\ threads = ThreadsNew
    /\ cues = [sheets |-> {}, calls |-> << >>]

NextFactory == GetOrNew \/ Clear
SpecFactory == InitFactory /\ [][NextFactory]_vars

\* the steps of the processes
Connect ==
    /\ \E p \in Procs : singleton.pc[p] = "new" /\ singleton' = connect(singleton, p)
    /\ UNCHANGED <<engine, scrobbler, app_state, threads, cues>>

CreateLockFile ==
    /\ \E p \in Procs :
           /\ singleton.pc[p] = "create_lock_file"
           /\ singleton.locked_by = 0
           /\ singleton' = create_lock_file(singleton, p)
    /\ UNCHANGED <<engine, scrobbler, app_state, threads, cues>>

DropWriteFile ==
    /\ \E p \in Procs :
           singleton.pc[p] = "locked" /\ singleton' = drop_write_file(singleton, p)
    /\ UNCHANGED <<engine, scrobbler, app_state, threads, cues>>

Listen ==
    /\ \E p \in Procs : singleton.pc[p] = "starting" /\ singleton' = listen(singleton, p)
    /\ UNCHANGED <<engine, scrobbler, app_state, threads, cues>>

ProcessConnection ==
    /\ singleton.socket # 0
    /\ singleton.inbox # << >>
    /\ singleton' = process_connection(singleton)
    /\ UNCHANGED <<engine, scrobbler, app_state, threads, cues>>

Quit ==
    /\ \E p \in Procs : singleton.pc[p] = "listening" /\ singleton' = quit(singleton, p)
    /\ UNCHANGED <<engine, scrobbler, app_state, threads, cues>>

\* the processes alone
InitProcs == EngineOff([responses |-> << >>]) /\ OutsideIdle
NextProcs ==
    Connect \/ CreateLockFile \/ DropWriteFile \/ Listen \/ ProcessConnection \/ Quit
SpecProcs == InitProcs /\ [][NextProcs]_vars

(***************************************************************************)
(* Reading the log of responses.                                           *)
(***************************************************************************)
IsNewPlaylistIndex(i) == tx[i].type = "NewPlaylistIndex"
IsState(i, state) == tx[i].type = "PlaybackStateChanged" /\ tx[i].state = state
IsStart(i) == IsState(i, "Playing") /\ sent[i].by = "play"

\* the track can be opened: Decoder::play succeeds on it
TrackOpens(t) == decoder_play(DecoderNew, t).ok
AllOpen(pl) == \A i \in 1..Len(pl) : TrackOpens(pl[i])

\* the step is the engine handling a command of this type
Handles(type) ==
    /\ pc = "cmd"
    /\ rx # << >>
    /\ recv(rx).cmd.type = type
    /\ Len(cmds') = Len(cmds) + 1

\* the engine has just handled a command of this type
Handled(type) ==
    /\ cmds # << >>
    /\ cmds[Len(cmds)].cmd.type = type
    /\ pc = "read"
    /\ packets_left = READ_PACKETS_PER_CYCLE

\* the responses the last command handled has caused so far
OfLastCmd(i) == sent[i].n = cmds[Len(cmds)].seq /\ sent[i].src = "cmd"

(***************************************************************************)
(* C1.  On a playlist in which every track opens, each Next command starts *)
(* the track at the following index and wraps from the last index to 0:    *)
(* handled at index i it leaves the engine playing index (i + 1) mod       *)
(* |playlist|, so N of them in a row advance the index by N.               *)
(***************************************************************************)
C1_NextPlaysFollowingIndex ==
    [][ (Handles("Next") /\ player.playlist # << >> /\ AllOpen(player.playlist))
        => /\ player'.playlist_index
                  = (player.playlist_index + 1) % Len(player.playlist)
           /\ decoder'.track = Some(player.playlist[player'.playlist_index + 1])
           /\ decoder'.stream # None
           /\ tx'[Len(tx')] = StateChanged("Playing", 0) ]_vars

\* two Next commands in a row, the second one wrapping from the last index to 0
C1_NextWrapped ==
    /\ Handled("Next")
    /\ Len(cmds) > 3
    /\ cmds[Len(cmds) - 1].cmd.type = "Next"
    /\ AllOpen(player.playlist)
    /\ Len(player.playlist) > 1
    /\ player.playlist_index = 0
    /\ \E i \in 1..Len(tx) :
           /\ OfLastCmd(i)
           /\ IsState(i, "Stopped")
           /\ sent[i].playlist_index = Len(player.playlist) - 1

(***************************************************************************)
(* C2.  The NewPlaylistIndex of a track precedes every NewMeta of it: the  *)
(* last NewPlaylistIndex before a NewMeta announces the track the metadata *)
(* is of.  The Playing state change of a start comes right after the       *)
(* NewPlaylistIndex of the index started.                                  *)
(***************************************************************************)
\* the metadata is that of the track: file metadata, or the CUE track's
MetaIsOf(meta, t) ==
    IF t.index = None THEN meta = FileMeta(t.filename)
    ELSE Some(meta) = track_meta(t.filename, t.index[1], FileMeta(CueSource(t.filename)))

C2_IndexBeforeMetaAndPlaying ==
    /\ \A j \in 1..Len(tx) :
           tx[j].type = "NewMeta"
           => \E i \in 1..(j - 1) :
                  /\ IsNewPlaylistIndex(i)
                  /\ MetaIsOf(tx[j].meta, tx[i].track)
                  /\ \A k \in (i + 1)..(j - 1) : ~IsNewPlaylistIndex(k)
    /\ \A j \in 1..Len(tx) :
           IsStart(j)
           => /\ j > 1
              /\ IsNewPlaylistIndex(j - 1)
              /\ tx[j - 1].playlist_index = sent[j].playlist_index
              /\ Some(tx[j - 1].track) = sent[j].track

\* a track started by the end of the one before it, its metadata sent by a read
C2_MetaAfterAutomaticStart ==
    \E i \in 1..Len(tx) : \E j \in (i + 2)..Len(tx) :
        /\ IsNewPlaylistIndex(i)
        /\ sent[i].src = "read"
        /\ IsStart(i + 1)
        /\ tx[j].type = "NewMeta"
        /\ sent[j].src = "read"
        /\ MetaIsOf(tx[j].meta, tx[i].track)

(***************************************************************************)
(* C3.  Between two starts (calls of play) a PositionCallback with a given *)
(* id is sent at most once, also when a seek moves the position back       *)
(* before its marker; a SecsFromStart(d) callback is sent only at a        *)
(* playback position of at least d.                                        *)
(***************************************************************************)
IsCallback(i) == tx[i].type = "PositionCallback"

C3_CallbackOncePerStart ==
    /\ \A i \in 1..Len(tx) :
           IsCallback(i)
           => \A j \in (i + 1)..Len(tx) :
                  (IsCallback(j) /\ tx[i].callback.id = tx[j].callback.id)
                  => \E k \in (i + 1)..(j - 1) : IsStart(k)
    /\ \A i \in 1..Len(tx) :
           (IsCallback(i) /\ tx[i].callback.marker = "SecsFromStart")
           => sent[i].position >= tx[i].callback.secs

\* callback 0 sent, a seek back to 0, then callbacks processed past marker 0
\* again (callback 1 sent there) without callback 0 being sent again
C3_NotRepeatedAfterSeekBack ==
    \E i \in 1..Len(tx) : \E j \in (i + 1)..Len(tx) : \E k \in (j + 1)..Len(tx) :
        /\ IsCallback(i) /\ tx[i].callback = from_start(0, 16384)
        /\ tx[j] = [type |-> "Seeked", position |-> 0]
        /\ IsCallback(k) /\ tx[k].callback.id = 1
        /\ sent[k].position >= 16384
        /\ \A m \in i..k : ~IsStart(m)

(***************************************************************************)
(* C4.  No PositionCallback is sent before the NewPlaylistIndex of the     *)
(* track it is computed for: the last NewPlaylistIndex before a            *)
(* PositionCallback announces the track whose position and duration the    *)
(* callback was computed from, also across a gapless CUE advance.          *)
(***************************************************************************)
\* the duration in the metadata of a track
DurationOf(t) ==
    IF t.index = None THEN FileMeta(t.filename).duration
    ELSE track_meta(t.filename, t.index[1], FileMeta(CueSource(t.filename)))[1].duration

C4_CallbackOfAnnouncedTrack ==
    \A j \in 1..Len(tx) :
        IsCallback(j)
        => \E i \in 1..(j - 1) :
               /\ IsNewPlaylistIndex(i)
               /\ \A k \in (i + 1)..(j - 1) : ~IsNewPlaylistIndex(k)
               /\ sent[j].track = Some(tx[i].track)
               /\ sent[j].track_meta # None
               /\ sent[j].track_meta[1].duration = DurationOf(tx[i].track)

(***************************************************************************)
(* C5.  A Play command for a track that cannot be opened tries the         *)
(* following indices in order, without wrapping, and plays the first that  *)
(* opens; if none opens the engine is left stopped (no stream, no Output,  *)
(* no Playing state sent) and PlaylistEnded is sent once.                  *)
(***************************************************************************)
\* the responses the step sends
SentByStep == (Len(tx) + 1)..Len(tx')
\* the indices after index whose tracks open
OpenAfter(index) ==
    {k \in (index + 1)..(Len(player.playlist) - 1) : TrackOpens(player.playlist[k + 1])}
Lowest(S) == CHOOSE k \in S : \A m \in S : k <= m

C5_PlaySkipsUnopenable ==
    [][ LET cmd == recv(rx).cmd
            index == IF cmd.index # None THEN cmd.index[1] ELSE player.playlist_index
        IN  (/\ Handles("Play")
             /\ index < Len(player.playlist)
             /\ ~TrackOpens(player.playlist[index + 1]))
            => IF OpenAfter(index) # {}
               THEN /\ player'.playlist_index = Lowest(OpenAfter(index))
                    /\ decoder'.track = Some(player.playlist[player'.playlist_index + 1])
                    /\ decoder'.stream # None
                    /\ tx'[Len(tx')] = StateChanged("Playing", 0)
               ELSE /\ decoder'.stream = None
                    /\ player'.output = None
                    /\ \A k \in SentByStep :
                           tx'[k].type = "PlaybackStateChanged"
                           => tx'[k] = StateChanged("Stopped", 0)
                    /\ Cardinality({k \in SentByStep : tx'[k].type = "PlaylistEnded"})
                           = 1 ]_vars

\* a Play that skipped to a later index, then a Play after which nothing opened
C5_SkippedThenEnded ==
    /\ Handled("Play")
    /\ tx[Len(tx)].type = "PlaylistEnded"
    /\ OfLastCmd(Len(tx))
    /\ decoder.stream = None
    /\ \E i \in 1..Len(tx) : \E c \in 1..Len(cmds) :
           /\ IsNewPlaylistIndex(i)
           /\ sent[i].src = "cmd"
           /\ sent[i].n = cmds[c].seq
           /\ cmds[c].cmd.type = "Play"
           /\ cmds[c].cmd.index # None
           /\ cmds[c].cmd.index[1] < tx[i].playlist_index

(***************************************************************************)
(* C6.  When a track ends by itself the engine starts the next index that  *)
(* opens, without wrapping.  At the last track, or when no later track     *)
(* opens, it sends PlaylistEnded once, then the Stopped state, drops the   *)
(* Output, and sends no NewPlaylistIndex until a client command arrives.   *)
(***************************************************************************)
\* the step is one read_stream in which the decoder reports ReadEnd
ReadsEnd ==
    /\ pc = "read"
    /\ pc' # pc \/ packets_left' # packets_left
    /\ decoder_read_stream(decoder).res = "ReadEnd"

C6_EndStep ==
    ReadsEnd
    => IF OpenAfter(player.playlist_index) # {}
       THEN /\ player'.playlist_index = Lowest(OpenAfter(player.playlist_index))
            /\ decoder'.track = Some(player.playlist[player'.playlist_index + 1])
            /\ tx'[Len(tx')] = StateChanged("Playing", 0)
            /\ \A k \in SentByStep : tx'[k].type # "PlaylistEnded"
       ELSE /\ Cardinality({k \in SentByStep : tx'[k].type = "PlaylistEnded"}) = 1
            /\ tx'[Len(tx')] = StateChanged("Stopped", 0)
            /\ tx'[Len(tx') - 1].type = "PlaylistEnded"
            /\ \A k \in SentByStep : tx'[k].type # "NewPlaylistIndex"
            /\ player'.output = None
            /\ decoder'.stream = None
            /\ pc' = "cmd"

C6_QuietAfterEnd ==
    \A i \in 1..Len(tx) :
        (tx[i].type = "PlaylistEnded" /\ sent[i].src = "read")
        => \A j \in (i + 1)..Len(tx) :
               (IsNewPlaylistIndex(j) \/ IsStart(j)) => sent[j].n > sent[i].n

C6_PlaylistEndsOnce == []C6_QuietAfterEnd /\ [][C6_EndStep]_vars

\* the last track ended while its Output was playing
C6_EndedWithOutput ==
    \E i \in 2..(Len(tx) - 1) : \E k \in 1..(i - 1) :
        /\ tx[i].type = "PlaylistEnded" /\ sent[i].src = "read"
        /\ tx[i + 1] = StateChanged("Stopped", 0)
        /\ IsCallback(k)
        /\ \A m \in k..i : ~IsStart(m)
        /\ i + 1 = Len(tx)
        /\ player.output = None
        /\ decoder.stream = None
        /\ pc = "cmd"

(***************************************************************************)
(* C7.  After the engine handles Exit, Exited is the last response: the    *)
(* engine loop has ended and sends nothing more, a receive on the response *)
(* channel fails once the responses sent are taken, and the response       *)
(* thread exits.                                                           *)
(***************************************************************************)
\* Receiver::recv on the response channel fails: sender dropped, channel empty
RecvFails == pc = "exited" /\ received = Len(tx)

C7_ExitedIsLast ==
    /\ \A i \in 1..Len(tx) : tx[i].type = "Exited" => i = Len(tx)
    /\ pc = "exited" <=> (tx # << >> /\ tx[Len(tx)].type = "Exited")
    /\ \A k \in 1..Len(cmds) : cmds[k].cmd.type = "Exit" => (k = Len(cmds) /\ pc = "exited")
    /\ consumer = "exited" => RecvFails

C7_LoopEnded ==
    pc = "exited"
    => /\ pc' = pc /\ tx' = tx /\ cmds' = cmds /\ rx' = rx
       /\ player' = player /\ decoder' = decoder

C8_CommandsInOrder ==
    /\ \A k \in 1..Len(cmds) : cmds[k].seq = k
    /\ \A k \in 1..Len(rx) : rx[k].seq = Len(cmds) + k
    /\ \A i \in 1..(Len(tx) - 1) : sent[i].n <= sent[i + 1].n
    /\ \A i \in 1..Len(tx) : sent[i].n <= Len(cmds)

\* a command has been handled and answered while the one sent after it waits
C8_AnsweredWhileNextWaits ==
    /\ Len(cmds) > 2
    /\ pc = "read"
    /\ packets_left = READ_PACKETS_PER_CYCLE
    /\ Len(rx) = 1
    /\ rx[1].cmd.type # cmds[Len(cmds)].cmd.type
    /\ \E i \in 1..Len(tx) : OfLastCmd(i)
    /\ \E i \in 1..Len(tx) : sent[i].n = Len(cmds) - 1 /\ sent[i].src = "read"

(***************************************************************************)
(* C9.  NewPlaylistIndex is sent at most once per change of the index: two *)
(* successive NewPlaylistIndex responses do not carry the same index       *)
(* unless the engine's current index changed between them.                 *)
(***************************************************************************)
\* i and j are successive NewPlaylistIndex responses with the same index
SameIndexAgain(i, j) ==
    /\ IsNewPlaylistIndex(i)
    /\ IsNewPlaylistIndex(j)
    /\ tx[i].playlist_index = tx[j].playlist_index
    /\ \A k \in (i + 1)..(j - 1) : ~IsNewPlaylistIndex(k)

C9_OncePerIndexChange ==
    \A j \in 1..Len(tx) : \A i \in 1..(j - 1) : SameIndexAgain(i, j) => sent[j].changed

(***************************************************************************)
(* C9, as the engine has it.  Two successive NewPlaylistIndex responses    *)
(* carry the same index only if the current index changed between them or  *)
(* the engine stopped between them (a Stopped state change was sent).       *)
(***************************************************************************)
C9_OncePerIndexChangeOrStop ==
    \A j \in 1..Len(tx) : \A i \in 1..(j - 1) :
        SameIndexAgain(i, j)
        => \/ sent[j].changed
           \/ \E k \in (i + 1)..(j - 1) : IsState(k, "Stopped")

\* the same index announced twice with a stop and no change of index between
C9_SameIndexAfterStop ==
    \E j \in 1..Len(tx) : \E i \in 1..(j - 1) :
        /\ SameIndexAgain(i, j)
        /\ ~sent[j].changed
        /\ \E k \in (i + 1)..(j - 1) : IsState(k, "Stopped")

(***************************************************************************)
(* C10.  The sample buffer never holds more than BUFFER_CAPACITY samples,  *)
(* whatever the size of the packets decoded.                               *)
(***************************************************************************)
C10_BufferWithinCapacity == decoder.buf <= BUFFER_CAPACITY

(***************************************************************************)
(* C11: at most one Output exists, and whenever an Output exists its       *)
(* channel count and sample rate are those of the decoder's current        *)
(* PacketMeta, for every kind of track transition.  PlayerThread holds its *)
(* Output in one Option, so there is never more than one; what is checked  *)
(* is the format.                                                          *)
(***************************************************************************)
OutputFormat == player.output[1]
PacketFormat ==
    [channels_count |-> decoder.packet_meta[1].channels_count,
     sample_rate |-> decoder.packet_meta[1].sample_rate]

C11_OutputHasPacketFormat ==
    (player.output # None /\ decoder.packet_meta # None) => OutputFormat = PacketFormat

(***************************************************************************)
(* C12: when playback advances by itself to a track of another format, the *)
(* old samples drain, the Output is dropped and an Output of the new       *)
(* format is created; with no command intervening and the output not       *)
(* paused this always completes.                                           *)
(***************************************************************************)
FormatChangePending == env.commands = Unattended /\ decoder.wait_empty_buf

FormatChangeDone ==
    /\ ~decoder.wait_empty_buf
    /\ player.output # None /\ decoder.packet_meta # None
    /\ OutputFormat = PacketFormat

C12_FormatChangeCompletes == FormatChangePending ~> FormatChangeDone

(***************************************************************************)
(* C13: every position the engine reports (PositionRequested, and          *)
(* PlaybackStateChanged for Pause and UnPause) is the position of the last *)
(* packet read, less the duration of the samples buffered, less the start  *)
(* of the active CUE track, never below zero.  The duration of the samples *)
(* buffered is their number over channels x sample rate; when the decoder  *)
(* holds no PacketMeta the format of any file of the library is accepted.  *)
(***************************************************************************)
Formats == {[channels_count |-> 2, sample_rate |-> 1], [channels_count |-> 2, sample_rate |-> 2]}

CueStart(d) ==
    IF d.cue_sheet # None /\ d.track # None /\ d.track[1].index # None
    THEN CueTracks(d.cue_sheet[1])[d.track[1].index[1]].start
    ELSE 0

PositionBy(d, format) ==
    LET behind == d.buf \div (format.channels_count * format.sample_rate) + CueStart(d)
    IN  IF d.position > behind THEN d.position - behind ELSE 0

\* the step is the engine answering a command with a position
ReportsPosition ==
    /\ Handles("RequestPosition") \/ Handles("Pause") \/ Handles("UnPause")
    /\ Len(tx') = Len(tx) + 1

C13_ReportedPosition ==
    [][ ReportsPosition =>
            IF decoder.packet_meta # None
            THEN tx'[Len(tx')].position = PositionBy(decoder, decoder.packet_meta[1])
            ELSE \E format \in Formats :
                     tx'[Len(tx')].position = PositionBy(decoder, format) ]_vars

(***************************************************************************)
(* C14.  After a SeekTo{p} that the stream accepts on a playing track, the *)
(* playback position equals p to within one packet: the step leaves the    *)
(* buffer empty and the stream positioned within one packet of p + S, S    *)
(* being the start of the active CUE track (0 for a plain file), and the   *)
(* Seeked response carries the position reached minus S.                   *)
(***************************************************************************)
\* the position the stream is at: the timestamp of the packet it returns next
StreamAt(d) == d.stream[1].next * PacketTicks(d.stream[1].path)

Within(a, b, packet) == a - b <= packet /\ b - a <= packet

\* the format reader has the position asked for: it lies inside the file
SeekAccepted(d, pos) ==
    /\ d.stream # None
    /\ pos + CueStart(d) < FileDuration(d.stream[1].path)

SeeksTo(pos) ==
    /\ Handles("SeekTo")
    /\ recv(rx).cmd.position = pos
    /\ SeekAccepted(decoder, pos)

C14_SeekToReachesPosition ==
    [][ \A pos \in {8192, 40960} :
          SeeksTo(pos) =>
            /\ decoder'.buf = 0
            /\ Within(StreamAt(decoder'), pos + CueStart(decoder),
                      PacketTicks(decoder.stream[1].path))
            /\ tx'[Len(tx')] = [type |-> "Seeked",
                                position |-> SatSub(StreamAt(decoder'), CueStart(decoder))]
            /\ Within(playback_position(decoder'), pos,
                      PacketTicks(decoder.stream[1].path)) ]_vars

\* the same without the playback position: what the step does to the buffer, to
\* the stream and to the response
C14_SeekToMovesStream ==
    [][ \A pos \in {8192, 40960} :
          SeeksTo(pos) =>
            /\ decoder'.buf = 0
            /\ Within(StreamAt(decoder'), pos + CueStart(decoder),
                      PacketTicks(decoder.stream[1].path))
            /\ tx'[Len(tx')] = [type |-> "Seeked",
                                position |-> SatSub(StreamAt(decoder'), CueStart(decoder))]
      ]_vars

(***************************************************************************)
(* C15.  Whenever a CUE track is the active track and the end of the       *)
(* stream has not been reported, the timestamp t the decoder's stream is   *)
(* at lies inside the track: start <= t < start + duration, whatever       *)
(* packet reads, seeks and automatic advances came before.                 *)
(***************************************************************************)
ActiveCue(d) ==
    d.stream # None /\ d.cue_sheet # None /\ d.track # None /\ d.track[1].index # None

\* the timestamp of the last packet read, or the position an open or a seek has
\* left the stream at when no packet has been read since
StreamTimestamp(d) == IF d.stream[1].buffer # None THEN d.position ELSE StreamAt(d)

CueDuration(d) ==
    track_meta(d.cue_sheet[1], d.track[1].index[1],
               FileMeta(CueSource(d.cue_sheet[1])))[1].duration

C15_TimestampInsideCueTrack ==
    (ActiveCue(decoder) /\ ~decoder.at_end) =>
        /\ CueStart(decoder) <= StreamTimestamp(decoder)
        /\ StreamTimestamp(decoder) < CueStart(decoder) + CueDuration(decoder)

\* the same for the states in which the stream stands on a packet it has read
C15_LastPacketInsideCueTrack ==
    (ActiveCue(decoder) /\ ~decoder.at_end /\ decoder.stream[1].buffer # None) =>
        /\ CueStart(decoder) <= decoder.position
        /\ decoder.position < CueStart(decoder) + CueDuration(decoder)

(***************************************************************************)
(* C16.  On a playlist whose tracks all open and that spans at least two   *)
(* parent directories, NextDir handled at index c plays the first index    *)
(* after c, in playlist order with wrap-around to 0, whose parent          *)
(* directory differs from that of c.                                       *)
(***************************************************************************)
Dirs(pl) == {playlist_index_dir(pl, i) : i \in 0..Len(pl) - 1}

OtherDir(pl, c, j) == playlist_index_dir(pl, j) # playlist_index_dir(pl, c)

\* the number of steps forward from c, wrapping, to the first other directory
StepsToOtherDir(pl, c) ==
    Lowest({k \in 1..Len(pl) - 1 : OtherDir(pl, c, (c + k) % Len(pl))})

MovesByDir(type) ==
    /\ Handles(type)
    /\ AllOpen(player.playlist)
    /\ Cardinality(Dirs(player.playlist)) >= 2

C16_NextDirPlaysOtherDir ==
    [][ MovesByDir("NextDir")
        => player'.playlist_index
               = (player.playlist_index + StepsToOtherDir(player.playlist,
                                                          player.playlist_index))
                 % Len(player.playlist) ]_vars

\* C16, as the code has it: the first index after c and before the end of the
\* playlist whose parent directory differs from that of c, and index 0 when
\* there is none, whatever the directory of index 0
LaterInOtherDir(pl, c) == {j \in c + 1..Len(pl) - 1 : OtherDir(pl, c, j)}

C16_NextDirPlaysOtherDirOrStart ==
    [][ MovesByDir("NextDir")
        => /\ player'.playlist_index
                  = IF LaterInOtherDir(player.playlist, player.playlist_index) = {}
                    THEN 0
                    ELSE Lowest(LaterInOtherDir(player.playlist, player.playlist_index))
           /\ decoder'.track = Some(player.playlist[player'.playlist_index + 1])
           /\ tx'[Len(tx')] = StateChanged("Playing", 0) ]_vars

\* the index the last command was handled at: that of its Stopped response
HandledAt(c) ==
    \E i \in 1..Len(tx) :
        OfLastCmd(i) /\ IsState(i, "Stopped") /\ sent[i].playlist_index = c

\* NextDir from the last index, in directory /a, has started index 0, in /a too
C16_NextDirWrappedToSameDir ==
    /\ Handled("NextDir")
    /\ player.playlist = PlaylistMixed
    /\ HandledAt(2)
    /\ player.playlist_index = 0
    /\ decoder.track = Some(PlaylistMixed[1])

(***************************************************************************)
(* C17.  On a playlist whose tracks all open, PrevDir handled at index c   *)
(* plays the first index of c's run of tracks of one directory when c is   *)
(* not that index, and the first index of the run before it otherwise,     *)
(* wrapping from index 0 to the last run; the index j played satisfies     *)
(* j = 0 or dir(j - 1) # dir(j).                                           *)
(***************************************************************************)
BlockStart(pl, j) == j = 0 \/ OtherDir(pl, j, j - 1)

Highest(S) == CHOOSE x \in S : \A y \in S : y <= x

FirstOfBlock(pl, c) == Highest({j \in 0..c : BlockStart(pl, j)})

PrevDirTarget(pl, c) ==
    IF FirstOfBlock(pl, c) # c THEN FirstOfBlock(pl, c)
    ELSE FirstOfBlock(pl, IF c = 0 THEN Len(pl) - 1 ELSE c - 1)

C17_PrevDirPlaysBlockStart ==
    [][ (Handles("PrevDir") /\ player.playlist # << >> /\ AllOpen(player.playlist))
        => /\ player'.playlist_index
                  = PrevDirTarget(player.playlist, player.playlist_index)
           /\ BlockStart(player.playlist, player'.playlist_index)
           /\ decoder'.track = Some(player.playlist[player'.playlist_index + 1])
           /\ tx'[Len(tx')] = StateChanged("Playing", 0) ]_vars

\* PrevDir from index 0 has wrapped to the first index of the last directory
C17_PrevDirWrapped ==
    /\ Handled("PrevDir")
    /\ player.playlist = PlaylistAlbums
    /\ HandledAt(0)
    /\ player.playlist_index = 4
    /\ decoder.track = Some(PlaylistAlbums[5])

(***************************************************************************)
(* C18.  Whenever a SecsFromEnd(d) callback is sent, the playback position *)
(* is at least the duration of the track that is playing minus d, however  *)
(* the track was entered: as a file just opened, as a CUE track on a new   *)
(* stream, by gapless advance from the CUE track before it, or by a jump   *)
(* inside the same source.                                                 *)
(***************************************************************************)
IsFromEnd(j) == IsCallback(j) /\ tx[j].callback.marker = "SecsFromEnd"

C18_FromEndOfPlayingTrack ==
    \A j \in 1..Len(tx) :
        IsFromEnd(j)
        => /\ sent[j].track # None
           /\ sent[j].position
                  >= SatSub(DurationOf(sent[j].track[1]), tx[j].callback.secs)

\* the same for the tracks that are not CUE tracks
C18_FromEndOfPlayingFile ==
    \A j \in 1..Len(tx) :
        (IsFromEnd(j) /\ sent[j].track # None /\ sent[j].track[1].index = None)
        => sent[j].position
               >= SatSub(DurationOf(sent[j].track[1]), tx[j].callback.secs)

(***************************************************************************)
(* C19.  No PositionCallback is sent while the duration of the playing     *)
(* track is unknown, that is while its TrackMeta carries the default zero  *)
(* duration because none could be read, for SecsFromStart and SecsFromEnd  *)
(* markers alike.                                                          *)
(***************************************************************************)
DurationUnknown(meta) == meta = None \/ meta[1].duration = 0

C19_NoCallbackWithoutDuration ==
    \A j \in 1..Len(tx) : IsCallback(j) => ~DurationUnknown(sent[j].track_meta)

\* the same for one marker at a time
C19_NoFromStartWithoutDuration ==
    \A j \in 1..Len(tx) :
        (IsCallback(j) /\ tx[j].callback.marker = "SecsFromStart")
        => ~DurationUnknown(sent[j].track_meta)

C19_NoFromEndWithoutDuration ==
    \A j \in 1..Len(tx) : IsFromEnd(j) => ~DurationUnknown(sent[j].track_meta)

(***************************************************************************)
(* C20.  On the scrobble callback the App submits to the services only if  *)
(* no Seeked has been received since the last NewPlaylistIndex or the last *)
(* Seeked since then carries position zero.  last_seek_position is unset   *)
(* by every NewPlaylistIndex: a seek in one track does not suppress the    *)
(* scrobble of the next.                                                   *)
(***************************************************************************)
Submitted(j) == \E i \in 1..Len(App.submitted) : App.submitted[i] = j

IsScrobble(j) == IsCallback(j) /\ tx[j].callback.id = POS_CALLBACK_SCROBBLE

LastIndexBefore(j) == Highest({0} \cup {i \in 1..j - 1 : IsNewPlaylistIndex(i)})

SeeksSince(j) == {k \in LastIndexBefore(j) + 1..j - 1 : tx[k].type = "Seeked"}

NotSeeked(j) == SeeksSince(j) = {} \/ tx[Highest(SeeksSince(j))].position = 0

\* the metadata received for the track is enough to scrobble it
Scrobblable(j) ==
    \E m \in LastIndexBefore(j) + 1..j - 1 :
        /\ tx[m].type = "NewMeta"
        /\ \A k \in m + 1..j - 1 : tx[k].type # "NewMeta"
        /\ tx[m].meta.duration > POS_MIN_DURATION_TO_SCROBBLE
        /\ tx[m].meta.title # ""

C20_ScrobbleUnlessSeeked ==
    \A j \in 1..received :
        /\ Submitted(j) => IsScrobble(j) /\ NotSeeked(j)
        /\ (IsScrobble(j) /\ Scrobblable(j) /\ NotSeeked(j)) => Submitted(j)
        /\ IsNewPlaylistIndex(j) => app_after(j).last_seek_position = None

\* the scrobble of a track is submitted though the track before it was sought in
C20_ScrobbledAfterSeekInPrevious ==
    \E j \in 1..received :
        /\ Submitted(j)
        /\ \E k \in 1..LastIndexBefore(j) :
               tx[k].type = "Seeked" /\ tx[k].position > 0

\* a scrobble callback is received and nothing is submitted: the track was sought in
C20_SuppressedBySeek ==
    \E j \in 1..received :
        IsScrobble(j) /\ Scrobblable(j) /\ ~NotSeeked(j) /\ ~Submitted(j)

(***************************************************************************)
(* C21.  On the now-playing callback and on the scrobble callback the App  *)
(* calls the services exactly when the duration of the track is at least   *)
(* the minimal duration of 30 seconds and its title is known: a track of   *)
(* exactly 30 seconds is submitted, a shorter one is not.                  *)
(***************************************************************************)
IsNowPlaying(j) == IsCallback(j) /\ tx[j].callback.id = POS_CALLBACK_NOW_PLAYING

Announced(j) == \E i \in 1..Len(App.now_playing) : App.now_playing[i] = j

MetasSince(j) == {m \in LastIndexBefore(j) + 1..j - 1 : tx[m].type = "NewMeta"}

\* the metadata of the track when response j is received
MetaReceived(j) ==
    IF MetasSince(j) = {} THEN TrackMetaDefault ELSE tx[Highest(MetasSince(j))].meta

\* the services are called on response j
Called(j) ==
    \/ IsNowPlaying(j) /\ Announced(j)
    \/ IsScrobble(j) /\ Submitted(j)

\* response j is a callback on which the services are called if the track is
\* long enough
MayCall(j) ==
    /\ MetaReceived(j).title # ""
    /\ IsNowPlaying(j) \/ (IsScrobble(j) /\ NotSeeked(j))

C21_CalledFromMinDuration ==
    \A j \in 1..received :
        /\ Called(j) => MayCall(j)
        /\ MayCall(j)
           => (Called(j) <=> MetaReceived(j).duration >= POS_MIN_DURATION_TO_SCROBBLE)

\* C21 as the code has it: the services are called exactly when the duration is
\* longer than 30 seconds; a track of exactly 30 seconds is not submitted
C21_CalledAboveMinDuration ==
    \A j \in 1..received :
        /\ Called(j) => MayCall(j)
        /\ MayCall(j)
           => (Called(j) <=> MetaReceived(j).duration > POS_MIN_DURATION_TO_SCROBBLE)

\* a track of 31 seconds is announced and one of exactly 30 seconds is not
C21_CalledAt31NotAt30 ==
    \E j, k \in 1..received :
        /\ MayCall(j) /\ Called(j)
        /\ MetaReceived(j).duration = POS_MIN_DURATION_TO_SCROBBLE + 1
        /\ MayCall(k) /\ ~Called(k)
        /\ MetaReceived(k).duration = POS_MIN_DURATION_TO_SCROBBLE

(***************************************************************************)
(* C22.  A listen whose submission failed stays in the queue of unsent     *)
(* listens, is in the file of unsent listens, and is in the batch of the   *)
(* next submission; a successful submission removes from the queue exactly *)
(* the listens of its batch and nothing else is ever removed; no batch     *)
(* holds more than 50 (Last.fm) or 25 (ListenBrainz) listens.              *)
(***************************************************************************)
Timestamps(items) == {items[k].timestamp : k \in 1..Len(items)}

Stamps(timestamps) == {timestamps[k] : k \in 1..Len(timestamps)}

InFlight == IF scrobbler.api_thread = None THEN {}
            ELSE Stamps(scrobbler.api_thread[1].timestamps)

\* the listens that are queued and not in flight: their submission has failed
Unsent == Timestamps(scrobbler.not_scrobbled) \ InFlight

ThreadEnds == scrobbler'.ended = scrobbler.ended + 1

Submits == scrobbler'.clock = scrobbler.clock + 1

Removed == (Timestamps(scrobbler.not_scrobbled) \ Timestamps(scrobbler'.not_scrobbled))

\* the newest listens of the queue, as many as a batch holds with the new listen
Newest == {scrobbler.not_scrobbled[k].timestamp :
               k \in Max(1, Len(scrobbler.not_scrobbled) + 2 - scrobbler.max)
                      ..Len(scrobbler.not_scrobbled)}

QueueKept ==
    /\ Removed # {} => ThreadEnds /\ scrobbler'.done[1].ok
    /\ ThreadEnds
       => /\ scrobbler'.done[1].ok
             => Removed = Timestamps(scrobbler.not_scrobbled) \cap InFlight
          /\ ~scrobbler'.done[1].ok
             => InFlight \cap Timestamps(scrobbler.not_scrobbled)
                    \subseteq Timestamps(scrobbler'.file)

BatchWithinMax ==
    /\ scrobbler.api_thread # None
       => Len(scrobbler.api_thread[1].timestamps) <= scrobbler.max
    /\ scrobbler.api_thread = None => scrobbler.file = scrobbler.not_scrobbled

C22_FailedListenInNextBatch ==
    /\ [][/\ QueueKept
          /\ Submits => Unsent \subseteq Stamps(scrobbler'.api_thread[1].timestamps)]_vars
    /\ []BatchWithinMax

\* C22 as the code has it: the batch of a submission is the new listen and the
\* newest listens of the queue, up to the size of a batch; an older listen stays
\* in the queue and is not in that batch
C22_NewestListensInNextBatch ==
    /\ [][/\ QueueKept
          /\ Submits => Stamps(scrobbler'.api_thread[1].timestamps)
                            = Newest \cup {scrobbler'.clock}]_vars
    /\ []BatchWithinMax

\* after a failed submission the queue is longer than a batch, and the batch in
\* flight is full
C22_QueueLongerThanBatch ==
    /\ scrobbler.api_thread # None
    /\ Len(scrobbler.api_thread[1].timestamps) = scrobbler.max
    /\ Len(scrobbler.not_scrobbled) > scrobbler.max
    /\ scrobbler.done # None
    /\ ~scrobbler.done[1].ok

(***************************************************************************)
(* C23.  Whatever the order in which processes start, at most one of them  *)
(* takes the listener branch of main (Singleton::new returns Some and the  *)
(* player is started), and the payload of every other one is written to    *)
(* the socket of the listener.                                             *)
(***************************************************************************)
Listeners == {p \in Procs : singleton.pc[p] \in {"starting", "listening"}}

Forwarded(p) ==
    \/ \E k \in 1..Len(singleton.inbox) : singleton.inbox[k] = p
    \/ \E k \in 1..Len(singleton.delivered) : singleton.delivered[k] = p

C23_OneListenerOthersForward ==
    /\ Cardinality(Listeners) <= 1
    /\ \A p \in Procs : singleton.pc[p] \in {"forwarded", "failed"} => Forwarded(p)

\* the same, part by part
C23_OneListener == Cardinality(Listeners) <= 1

C23_NoPayloadLost ==
    \A p \in Procs : singleton.pc[p] \in {"forwarded", "failed"} => Forwarded(p)

(***************************************************************************)
(* C24.  From the moment a process has become the listener until it ends,  *)
(* the lock file exists and the process holds its write lock; the file is  *)
(* removed only when the listener ends.                                    *)
(***************************************************************************)
C24_LockFileHeldWhileListener ==
    /\ [](\A p \in Listeners : singleton.lock_file /\ singleton.locked_by = p)
    /\ [][singleton.lock_file /\ ~singleton'.lock_file
          => \E p \in Procs : singleton.pc[p] = "listening"
                              /\ singleton'.pc[p] = "exited"]_vars

\* the same, part by part
C24_LockFileExistsWhileListening ==
    \A p \in Procs : singleton.pc[p] = "listening" => singleton.lock_file

C24_LockHeldWhileListener ==
    \A p \in Listeners : singleton.locked_by = p

(***************************************************************************)
(* C25.  When the running instance is handed a payload, the relative paths *)
(* of cli_args are resolved against current_dir of the payload, and the    *)
(* engine is sent Stop, SetPlaylist with the tracks found and Play of      *)
(* index 0, in this order and with no other command in between; when no    *)
(* track is found nothing is sent.                                         *)
(***************************************************************************)
HandsPayload == Len(singleton'.delivered) = Len(singleton.delivered) + 1

\* the tracks of a payload, its paths resolved against its current_dir
TracksOf(payload) == collect_tracks(payload.cli_args, payload.current_dir).tracks

SendsPlaylist(tracks) ==
    IF tracks = << >> THEN rx' = rx
    ELSE /\ Len(rx') = Len(rx) + 3
         /\ SubSeq(rx', 1, Len(rx)) = rx
         /\ rx'[Len(rx) + 1].cmd = Cmd("Stop")
         /\ rx'[Len(rx) + 2].cmd.type = "SetPlaylist"
         /\ rx'[Len(rx) + 2].cmd.tracks = tracks
         /\ rx'[Len(rx) + 3].cmd = Play(Some(0))

\* a playlist of an invocation is received between its Stop and its Play
ReceivedInOrder ==
    \A i \in 2..Len(cmds) :
        cmds[i].cmd.type = "SetPlaylist"
        => /\ cmds[i - 1].cmd = Cmd("Stop")
           /\ i < Len(cmds) => cmds[i + 1].cmd = Play(Some(0))

C25_PayloadPlayedFromSenderDir ==
    /\ [][HandsPayload => SendsPlaylist(TracksOf(Head(singleton.inbox)))]_vars
    /\ []ReceivedInOrder

\* the same with the paths resolved against the working directory of the running
\* instance
C25_PayloadPlayedFromOwnDir ==
    /\ [][HandsPayload
          => SendsPlaylist(collect_tracks(Head(singleton.inbox).cli_args,
                                          env.current_dir).tracks)]_vars
    /\ []ReceivedInOrder

(***************************************************************************)
(* C28.  A CUE sheet with N tracks found under the paths gives N Tracks in *)
(* the order of the sheet, each with the id of its CUE track as index and  *)
(* with the audio file of the sheet as filename; a Track has an index iff  *)
(* it comes from a sheet, no Track has a .cue file as filename, and the    *)
(* audio file of a sheet is not a Track without index.                     *)
(***************************************************************************)
Found == cues.found[1]

\* the Tracks of the list that have this filename and an index
IndexedOf(tracks, filename) ==
    SelectSeq(tracks, LAMBDA t : t.filename = filename /\ t.index # None)

Sources(sheets) == {CueSource(c) : c \in sheets}

\* how many times the file is found under the paths
Occurs(filename) ==
    Cardinality({k \in 1..Len(files_of_paths(cues.paths, cues.cwd)) :
                     files_of_paths(cues.paths, cues.cwd)[k] = filename})

C28_CueTracksCarryAudioFile ==
    cues.found # None
    => /\ \A c \in Found.cue_factory :
              IndexedOf(Found.tracks, CueSource(c))
                  = [k \in 1..Len(CueTracks(c)) |->
                         [filename |-> CueSource(c), index |-> Some(CueTracks(c)[k].index)]]
       /\ \A k \in 1..Len(Found.tracks) :
              /\ ~IsCueFile(Found.tracks[k].filename)
              /\ Found.tracks[k].index = None
                 => Found.tracks[k].filename \notin Sources(Found.cue_factory)

\* C28 as the code has it: the Tracks of a sheet carry the path of the sheet; a
\* sheet found m times gives each of its tracks m times, in the order of the ids
C28_CueTracksCarrySheet ==
    cues.found # None
    => /\ \A c \in Found.cue_factory :
              /\ Len(IndexedOf(Found.tracks, c)) = Occurs(c) * Len(CueTracks(c))
              /\ \A k \in 1..Len(IndexedOf(Found.tracks, c)) :
                     IndexedOf(Found.tracks, c)[k].index
                         = Some(CueTracks(c)[((k - 1) \div Occurs(c)) + 1].index)
       /\ \A k \in 1..Len(Found.tracks) :
              /\ Found.tracks[k].index # None
                 <=> Found.tracks[k].filename \in Found.cue_factory
              /\ Found.tracks[k].filename \notin Sources(Found.cue_factory)

\* a directory with a sheet and its audio file has been expanded: the three
\* tracks of the sheet are there
C28_SheetExpanded ==
    /\ cues.found # None
    /\ Occurs("/c/x.flac") = 1
    /\ IndexedOf(Found.tracks, "/c/x.cue")
           = << Cue("/c/x.cue", 1), Cue("/c/x.cue", 2), Cue("/c/x.cue", 3) >>

(***************************************************************************)
(* C29.  A call of get_or_new that fails returns the error and leaves the  *)
(* failure in the memo: until clear, a later call for the same path fails  *)
(* again without reading or parsing the file.  A sheet that loads is       *)
(* parsed once and the same sheet is returned until clear.                 *)
(***************************************************************************)
\* calls i and j are for the same path, with no clear between them
SamePathAgain(i, j) ==
    /\ i < j
    /\ ~cues.calls[i].clear
    /\ cues.calls[j].filename = cues.calls[i].filename
    /\ \A k \in i + 1..j - 1 : ~cues.calls[k].clear

FailuresCached ==
    \A i, j \in 1..Len(cues.calls) :
        (SamePathAgain(i, j) /\ ~cues.calls[i].ok)
        => ~cues.calls[j].ok /\ ~cues.calls[j].parsed

SheetsCached ==
    \A i, j \in 1..Len(cues.calls) :
        (SamePathAgain(i, j) /\ cues.calls[i].ok /\ cues.calls[i].sheet # None)
        => /\ cues.calls[j].ok
           /\ cues.calls[j].sheet = cues.calls[i].sheet
           /\ ~cues.calls[j].parsed

C29_LoadedOrFailedOnce == FailuresCached /\ SheetsCached

\* what holds of the code: a sheet that loads is parsed once
C29_LoadedOnce == SheetsCached

(***************************************************************************)
(* C30.  In a loaded sheet track_index_by_position(p) is the index of the  *)
(* last track that starts at or before p, and of the first track when p    *)
(* is before every start; a later position never gives a lower index, and  *)
(* the start of a track gives this track.                                  *)
(***************************************************************************)
StartedBy(p) == {i \in 1..Len(CueTracks(cues.sheet)) : CueTracks(cues.sheet)[i].start <= p}

LastStartedBy(p) ==
    IF StartedBy(p) = {} THEN CueTracks(cues.sheet)[1].index
    ELSE CueTracks(cues.sheet)[CHOOSE i \in StartedBy(p) :
                                   \A j \in StartedBy(p) : j <= i].index

HandsNewPlaylistIndex(user_navigation) ==
    /\ received' = received + 1
    /\ tx[received + 1].type = "NewPlaylistIndex"
    /\ tx[received + 1].user_navigation = user_navigation

HighlightSet ==
    /\ [][(HandsNewPlaylistIndex(FALSE) /\ App.tray = "Play")
           => App'.tray = "PlayHL"]_vars
    /\ [][HandsNewPlaylistIndex(TRUE) => App'.tray = App.tray]_vars

C26_HighlightEndsInTime == HighlightSet /\ (App.tray = "PlayHL" ~> App.tray = "Play")

\* what holds of the code: the highlight is set by an automatic advance only, and
\* it ends where the engine was given the position callbacks
C26_HighlightEndsWithService ==
    /\ HighlightSet
    /\ (env.position_callbacks # None /\ App.tray = "PlayHL") ~> App.tray = "Play"

\* the highlight was set and the position callback took it away
C26_HighlightEnded ==
    /\ received > 1
    /\ App.tray = "Play"
    /\ app_after(received - 1).tray = "PlayHL"

(***************************************************************************)
(* C27.  Every volume the engine receives from the App, at start-up from   *)
(* state.json, by the volume hotkeys and by the media keys, is a whole     *)
(* number of steps of 0.01 between 0 and 1, and so is the volume the       *)
(* decoder holds.                                                          *)
(***************************************************************************)
WholeSteps(volume) == volume \in 0..1000 /\ volume % VOL_STEP = 0

\* the volumes of the SetVolume commands of a channel, from the n-th command sent
VolumesOf(channel, n) ==
    {channel[i].cmd.volume :
        i \in {j \in 1..Len(channel) :
                   channel[j].cmd.type = "SetVolume" /\ channel[j].seq >= n}}

C27_VolumeInWholeSteps ==
    /\ \A v \in VolumesOf(cmds, 1) : WholeSteps(v)
    /\ WholeSteps(decoder.volume)

\* what holds of the code: the volumes sent by set_vol, which are those after the
\* first command of app::start, are in whole steps, and the decoder holds a volume
\* between 0 and 1
C27_SetVolInWholeSteps ==
    /\ \A v \in VolumesOf(rx, 2) \cup VolumesOf(cmds, 2) : WholeSteps(v)
    /\ decoder.volume \in 0..1000

(***************************************************************************)
(* C31.  Decoder::play for index k+1 of the CUE source that is open on     *)
(* index k leaves the stream, the buffer and the position as they are,     *)
(* and the decoder's track and track_meta become those of track k+1.       *)
(***************************************************************************)
\* the decoder has a stream open on the track before t in the source of t
Continues(t) ==
    /\ t.index # None
    /\ sheet_for_track(decoder, t).ok
    /\ decoder.stream # None /\ decoder.cue_sheet # None
    /\ CueSource(t.filename) = CueSource(decoder.cue_sheet[1])
    /\ decoder.track # None /\ decoder.track[1].index # None
    /\ t.index[1] = decoder.track[1].index[1] + 1

\* the step is Decoder::play(t), returning Ok
Plays(t) == decoder_play(decoder, t).ok /\ decoder' = decoder_play(decoder, t).d

StreamKept ==
    /\ decoder'.stream = decoder.stream
    /\ decoder'.buf = decoder.buf
    /\ decoder'.position = decoder.position

MetaOf(t) ==
    IF decoder'.file_meta = None THEN None
    ELSE track_meta(t.filename, t.index[1], decoder'.file_meta[1])

C31_NextCueTrackKeepsStream ==
    [][\A i \in 1..Len(DecoderTracks) :
          (Continues(DecoderTracks[i]) /\ Plays(DecoderTracks[i]))
          => /\ StreamKept
             /\ decoder'.track = Some(DecoderTracks[i])
             /\ decoder'.track_meta = MetaOf(DecoderTracks[i])]_vars

\* what holds of the code: the new metadata is only in the slot to deliver
C31_NextCueTrackMetaToDeliver ==
    [][\A i \in 1..Len(DecoderTracks) :
          (Continues(DecoderTracks[i]) /\ Plays(DecoderTracks[i]))
          => /\ StreamKept
             /\ decoder'.track = Some(DecoderTracks[i])
             /\ decoder'.track_meta = decoder.track_meta
             /\ decoder.file_meta # None
                => decoder'.new_track_meta = MetaOf(DecoderTracks[i])]_vars

(***************************************************************************)
(* C32.  Decoder::play for a track that does not continue the open CUE     *)
(* source, a plain file or a CUE track of another source, opens a new      *)
(* stream, and the buffer is empty when it returns.                        *)
(***************************************************************************)
\* t is a CUE track and the decoder has a stream open on the source of t
SameSource(t) ==
    /\ t.index # None
    /\ decoder.stream # None /\ decoder.cue_sheet # None
    /\ CueSource(t.filename) = CueSource(decoder.cue_sheet[1])

\* the path t is played from
SourceOf(t) == IF t.index = None THEN t.filename ELSE CueSource(t.filename)

\* the decoder has a stream just opened on the source of t: nothing was read of it
NewStream(t) ==
    /\ decoder'.stream # None
    /\ decoder'.stream[1].path = SourceOf(t)
    /\ ~decoder'.stream[1].metadata_sent
    /\ decoder'.stream[1].buffer = None

C34_WaitReturns ==
    (consumer = "exited") ~> (threads.main \in {"returned", "panicked"})

\* wait holds the mutex and joins the hotkey thread, which waits for the mutex
C34_JoinWaitsForLocker ==
    /\ threads.main = "join_hotkeys"
    /\ threads.mutex = "main"
    /\ threads.hotkeys = "lock"

(***************************************************************************)
(* C36.  A command sent after the engine has processed Exit does no harm:  *)
(* no thread panics in PlayerTx::send, the App mutex is not poisoned, and  *)
(* wait does not panic.                                                    *)
(***************************************************************************)
C36_SendAfterExitHarmless ==
    /\ ~threads.poisoned
    /\ threads.hotkeys # "panicked"
    /\ threads.main # "panicked"
    /\ consumer # "panicked"

(***************************************************************************)
(* C35.  LastFM::scrobble always returns: its join of the previous worker, *)
(* made with the not_scrobbled mutex held, comes to an end, also when the  *)
(* worker still has its HTTP call to finish and the mutex to take.         *)
(***************************************************************************)
C35_ScrobbleReturns == (scrobbler.caller = "scrobble") ~> (scrobbler.caller = "idle")

\* scrobble joins, with the mutex, a worker that waits for the mutex
C35_JoinWaitsForWorker ==
    /\ scrobbler.caller = "scrobble"
    /\ scrobbler.mutex = "caller"
    /\ scrobbler.api_thread
    /\ scrobbler.worker \in {"retain", "save"}

\* what holds of the code: playing_now, which joins without the mutex, returns
C35_PlayingNowReturns ==
    (scrobbler.caller = "now_playing") ~> (scrobbler.caller = "idle")

(***************************************************************************)
(* C33.  Each run of the output callback hands the device the first        *)
(* min(buffer length, requested length) samples of the buffer, in order    *)
(* and at the volume set, fills the rest of the block with silence and     *)
(* removes exactly the samples it handed over; with the appends of the     *)
(* engine in between, the buffer always holds, in the order written, the   *)
(* samples written and not yet played.                                     *)
(***************************************************************************)
Handed(n) ==
    LET k == Min(Len(decoder.buf.items), n)
    IN  /\ decoder'.data =
              [i \in 1..n |-> IF i <= k THEN with_volume(decoder.buf.items[i], decoder.volume)
                                        ELSE MID]
        /\ decoder'.buf.items = SubSeq(decoder.buf.items, k + 1, Len(decoder.buf.items))
        /\ decoder'.played = decoder.played + k

InOrder ==
    /\ decoder.played + Len(decoder.buf.items) = decoder.written
    /\ decoder.buf.items =
          [i \in 1..Len(decoder.buf.items) |-> sample(decoder.played + i)]

C33_FirstSamplesInOrder ==
    /\ []InOrder
    /\ [][OutputData => \E n \in 1..MaxData : Handed(n)]_vars

\* a block taken from both ends of the ring, with samples left in the buffer
C33_BlockAcrossTheRing ==
    /\ decoder.played >= RingLen
    /\ Len(decoder.data) = MaxData
    /\ decoder.data[MaxData] # MID
    /\ decoder.buf.head \in 1..(MaxData - 1)
    /\ decoder.buf.items # << >>

(***************************************************************************)
(* C37.  During playback with no Stop, Seek, navigation or SetPlaylist     *)
(* command and with the output not paused, the samples read into the       *)
(* buffer leave it only through the data callback of the output: no read   *)
(* step of the engine takes samples out of the buffer, be it at a track    *)
(* change, at a format change or at the end of the playlist.               *)
(***************************************************************************)
C37_NothingDiscarded ==
    [][ReadStream /\ ~player.output_is_paused => decoder'.buf >= decoder.buf]_vars

(***************************************************************************)
(* C38.  Whenever the command channel and the response channel are both    *)
(* empty, the playback_state of the App is the state of the engine:        *)
(* Stopped when the decoder has no stream, Paused when the Output is       *)
(* paused, Playing otherwise.                                              *)
(***************************************************************************)
EngineState ==
    IF decoder.stream = None THEN "Stopped"
    ELSE IF player.output # None /\ player.output_is_paused THEN "Paused"
    ELSE "Playing"

C38_ControllerFollowsEngine ==
    rx = << >> /\ received = Len(tx) => app_state.app.playback_state = EngineState

\* Pause was sent to an engine with no Output: the App shows Paused, the engine
\* plays on
C38_PausedWhilePlaying ==
    /\ rx = << >> /\ received = Len(tx)
    /\ app_state.app.playback_state = "Paused"
    /\ decoder.stream # None
    /\ ~player.output_is_paused
    /\ cmds[Len(cmds)].cmd.type = "Pause"

(***************************************************************************)
(* C39.  After any sequence of commands the playlist_index of the engine   *)
(* is an index of the playlist when the playlist has tracks, and 0 when it *)
(* has none.                                                               *)
(***************************************************************************)
C39_IndexInPlaylist ==
    IF player.playlist = << >> THEN player.playlist_index = 0
    ELSE player.playlist_index \in 0..(Len(player.playlist) - 1)

\* the last track of a playlist was current when a shorter playlist was set
C39_ShorterPlaylistSet ==
    /\ Len(cmds) = 3
    /\ cmds[2].cmd.type = "Play"
    /\ cmds[2].cmd.index = Some(3)
    /\ player.sent_playlist_index = None
    /\ cmds[3].cmd.type = "SetPlaylist"
    /\ Len(player.playlist) = 2
    /\ player.playlist_index = 0

(***************************************************************************)
(* C40.  move_and_play always terminates: whatever the step and the wrap,  *)
(* it calls play for at most as many tracks as the playlist has and then   *)
(* returns, also when no track of the playlist opens, and the engine goes  *)
(* on with its loop.                                                       *)
(***************************************************************************)
C40_MoveAndPlayReturns ==
    /\ [](threads.attempts <= Len(player.playlist))
    /\ (pc = "move") ~> (pc = "read" /\ threads.frame = None)

\* every track of the playlist was tried and none opened
C40_AllTracksTried ==
    /\ pc = "read"
    /\ threads.frame = None
    /\ player.playlist = PlaylistAllBad
    /\ threads.attempts = Len(player.playlist)
    /\ decoder.stream = None

====
